---- MODULE Spec2Model ----
(***************************************************************************)
(* Model of the authentication middleware of dapr-mcp (package auth).      *)
(*                                                                         *)
(* Strings the code takes apart (paths, skip patterns, header names and    *)
(* header values, tokens) are sequences of one-character strings, so that  *)
(* prefix, suffix and case operations are computed as the Go code computes *)
(* them.  Strings the code only passes along (response bodies, error       *)
(* texts, modes) are TLA+ strings.                                         *)
(***************************************************************************)
EXTENDS Integers, Sequences, FiniteSets, TLC

(***************************************************************************)
(* Bounds of the model.                                                    *)
(***************************************************************************)
\* longest authenticator list handed to NewMiddleware
MaxAuth == 2
\* longest generated skip-path list (bounded-string specification)
MaxSkip == 2
\* longest generated path / pattern (bounded-string specification)
MaxLen == 2

(***************************************************************************)
(* Go string helpers (package strings), on sequences of characters.        *)
(***************************************************************************)
UpperChars == <<"A","B","C","D","E","F","G","H","I","J","K","L","M",
                "N","O","P","Q","R","S","T","U","V","W","X","Y","Z">>
LowerChars == <<"a","b","c","d","e","f","g","h","i","j","k","l","m",
                "n","o","p","q","r","s","t","u","v","w","x","y","z">>

\* unicode.ToLower / unicode.ToUpper on the ASCII letters, as lookup tables
LowerOf == [c \in {UpperChars[i] : i \in 1..26} |->
               LowerChars[CHOOSE i \in 1..26 : UpperChars[i] = c]]
UpperOf == [c \in {LowerChars[i] : i \in 1..26} |->
               UpperChars[CHOOSE i \in 1..26 : LowerChars[i] = c]]

LowerChar(c) == IF c \in DOMAIN LowerOf THEN LowerOf[c] ELSE c
UpperChar(c) == IF c \in DOMAIN UpperOf THEN UpperOf[c] ELSE c

\* strings.ToLower
ToLower(s) == [i \in 1..Len(s) |-> LowerChar(s[i])]

\* strings.HasPrefix(s, prefix)
HasPrefix(s, prefix) ==
    /\ Len(s) >= Len(prefix)
    /\ SubSeq(s, 1, Len(prefix)) = prefix

\* strings.HasSuffix(s, suffix)
HasSuffix(s, suffix) ==
    /\ Len(s) >= Len(suffix)
    /\ SubSeq(s, Len(s) - Len(suffix) + 1, Len(s)) = suffix

\* strings.TrimPrefix(s, prefix): removes one leading occurrence
TrimPrefix(s, prefix) ==
    IF HasPrefix(s, prefix) THEN SubSeq(s, Len(prefix) + 1, Len(s)) ELSE s

\* strings.TrimSuffix(s, suffix): removes one trailing occurrence
TrimSuffix(s, suffix) ==
    IF HasSuffix(s, suffix) THEN SubSeq(s, 1, Len(s) - Len(suffix)) ELSE s

\* s[n:] of Go (n <= len(s))
SliceFrom(s, n) == SubSeq(s, n + 1, Len(s))

\* all sequences over S of length at most n
RECURSIVE SeqsUpTo(_, _)
SeqsUpTo(S, n) ==
    IF n = 0 THEN {<<>>}
    ELSE LET shorter == SeqsUpTo(S, n - 1)
         IN  shorter \cup {Append(s, x) : s \in {t \in shorter : Len(t) = n - 1}, x \in S}

(***************************************************************************)
(* net/http header access.  http.Header keys are stored in canonical MIME  *)
(* form; Header.Get canonicalises the name it is asked for and returns the *)
(* first value, or "" when the header is absent.                           *)
(***************************************************************************)
\* textproto.CanonicalMIMEHeaderKey for names made of letters, digits and '-'
CanonicalMIMEHeaderKey(name) ==
    [i \in 1..Len(name) |->
        IF i = 1 \/ name[i - 1] = "-" THEN UpperChar(name[i]) ELSE LowerChar(name[i])]

\* r.Header.Get(name); a header is a function from canonical names to values
HeaderGet(header, name) ==
    LET key == CanonicalMIMEHeaderKey(name)
    IN  IF key \in DOMAIN header THEN header[key] ELSE <<>>

(***************************************************************************)
(* Package constants (auth.go).                                            *)
(***************************************************************************)
ModeDisabled   == "disabled"
ModeOIDC       == "oidc"
ModeSPIFFE     == "spiffe"
ModeHybrid     == "hybrid"
ModeDaprSentry == "dapr-sentry"
AuthModes == {ModeDisabled, ModeOIDC, ModeSPIFFE, ModeHybrid, ModeDaprSentry}

ErrInvalidToken    == "invalid authentication token"
ErrTokenExpired    == "authentication token expired"

StatusUnauthorized == 401

\* the header names the middleware reads
Authorization == <<"A","u","t","h","o","r","i","z","a","t","i","o","n">>
BearerPrefix  == <<"b","e","a","r","e","r"," ">>
Star          == <<"*">>
Space         == <<" ">>

(***************************************************************************)
(* Identity and the request context (auth.go).  A context is a function    *)
(* from context keys to values; nil is Nil.                                *)
(***************************************************************************)
Nil == [nil |-> TRUE]
identityKey      == "auth.identity"
ServerContextKey == "http-server"

\* the subjects an authenticator of the model can vouch for
Subjects == {"alice", "spiffe://cluster.local/app"}

\* the errors an authenticator of the model can return
AuthErrors == {ErrInvalidToken, ErrTokenExpired}

\* a nil error, as the logger prints it
NoError == "<nil>"

\* type Identity struct: the fields the middleware reads or passes on
Identity == [Subject : Subjects, AuthMethod : AuthModes]

\* WithIdentity(ctx, id): context.WithValue(ctx, identityKey, id)
WithIdentity(ctx, id) ==
    [k \in DOMAIN ctx \cup {identityKey} |-> IF k = identityKey THEN id ELSE ctx[k]]

\* GetIdentity(ctx): the value under identityKey if it is an *Identity, else nil
GetIdentity(ctx) ==
    IF identityKey \in DOMAIN ctx /\ ctx[identityKey] \in Identity
    THEN ctx[identityKey]
    ELSE Nil

\* a test for the presence of the key in place of the value's type and nilness
IsAuthenticatedKeyPresent(ctx) == identityKey \in DOMAIN ctx

\* IsAuthenticated(ctx)
IsAuthenticated(ctx) == GetIdentity(ctx) # Nil

(***************************************************************************)
(* Middleware (middleware.go).                                             *)
(***************************************************************************)
\* shouldSkip: the range loop over config.SkipPaths, from position i
RECURSIVE shouldSkipFrom(_, _, _)
shouldSkipFrom(skipPaths, path, i) ==
    IF i > Len(skipPaths) THEN FALSE
    ELSE IF path = skipPaths[i] THEN TRUE
    ELSE IF /\ HasSuffix(skipPaths[i], Star)
            /\ HasPrefix(path, TrimSuffix(skipPaths[i], Star)) THEN TRUE
    ELSE shouldSkipFrom(skipPaths, path, i + 1)

\* a plausible slip: the wildcard branch without the HasSuffix guard
shouldSkipNoSuffixGuard(skipPaths, path) ==
    \E i \in 1..Len(skipPaths) :
        \/ path = skipPaths[i]
        \/ HasPrefix(path, TrimSuffix(skipPaths[i], Star))

\* a plausible slip: only exact matches are honoured
shouldSkipExactOnly(skipPaths, path) ==
    \E i \in 1..Len(skipPaths) : path = skipPaths[i]

\* Middleware.shouldSkip(path)
shouldSkip(skipPaths, path) == shouldSkipFrom(skipPaths, path, 1)

\* a plausible slip: the disabled mode is not consulted
authDisabledEnabledOnly(config) == ~config.Enabled

\* a plausible slip: the enabled flag is not consulted
authDisabledModeOnly(config) == config.Mode = ModeDisabled

\* the condition of the pass-through branch: !Enabled || Mode == ModeDisabled
authDisabled(config) == ~config.Enabled \/ config.Mode = ModeDisabled

\* the names extractTokenWithSource gives the header a token came from:
\* a header name followed by a note such as " (Bearer)"
TokenSource(name, note) == [name |-> name, note |-> note]
NoSource == TokenSource(<<>>, "")

\* a plausible slip: the Authorization header is read before the custom one
extractAuthorizationFirst(config, header) ==
    LET th   == config.DaprSentry.TokenHeader
        auth == HeaderGet(header, Authorization)
    IN  IF auth # <<>>
        THEN IF HasPrefix(ToLower(auth), BearerPrefix)
             THEN [token  |-> TrimPrefix(SliceFrom(auth, 7), Space),
                   header |-> TokenSource(Authorization, " (Bearer)")]
             ELSE [token |-> auth, header |-> TokenSource(Authorization, " (raw)")]
        ELSE IF th # <<>> /\ th # Authorization /\ HeaderGet(header, th) # <<>>
        THEN [token |-> HeaderGet(header, th), header |-> TokenSource(th, "")]
        ELSE [token |-> <<>>, header |-> NoSource]

\* Middleware.extractTokenWithSource(r): the token and the header it came from
extractTokenWithSource(config, header) ==
    LET th   == config.DaprSentry.TokenHeader
        auth == HeaderGet(header, Authorization)
    IN  IF th # <<>> /\ th # Authorization /\ HeaderGet(header, th) # <<>>
        THEN [token |-> HeaderGet(header, th), header |-> TokenSource(th, "")]
        ELSE IF auth = <<>>
        THEN [token |-> <<>>, header |-> NoSource]
        ELSE IF HasPrefix(ToLower(auth), BearerPrefix)
        THEN [token  |-> TrimPrefix(SliceFrom(auth, 7), Space),
              header |-> TokenSource(Authorization, " (Bearer)")]
        ELSE [token |-> auth, header |-> TokenSource(Authorization, " (raw)")]

\* http.Error(w, msg, code): plain-text response, the message and a newline
HttpError(msg, code) ==
    [status |-> code, contentType |-> "text/plain; charset=utf-8", body |-> msg \o "\n"]

\* a plausible slip: the empty-token test is left out
tokenMissingNever(token_) == FALSE

\* the test of the empty-token branch: token == ""
tokenMissing(token_) == token_ = <<>>

\* a plausible slip: the empty-token branch answers with the other message
rejectNoTokenAsInvalid == HttpError("Unauthorized: invalid token", StatusUnauthorized)

\* the response of the empty-token branch
rejectNoToken == HttpError("Unauthorized: no token provided", StatusUnauthorized)

\* a plausible slip: the last authenticator error is put in the body
rejectInvalidTokenLeaky(lastErr_) ==
    HttpError("Unauthorized: " \o lastErr_, StatusUnauthorized)

\* the response of the identity == nil branch; lastErr goes to the log only
rejectInvalidToken(lastErr_) ==
    HttpError("Unauthorized: invalid token", StatusUnauthorized)

\* a plausible slip: a successful authenticator does not end the loop
loopDoneNoBreak(identity_, i, n) == i > n

\* the authenticator loop is over: break after a success, or range exhausted
loopDone(identity_, i, n) == identity_ # Nil \/ i > n

\* a plausible slip: the identity is not attached to the forwarded request
forwardedContextBare(ctx, identity_) == ctx

\* the context of the request handed to next after a success
forwardedContext(ctx, identity_) == WithIdentity(ctx, identity_)

(***************************************************************************)
(* Inputs of the model: configurations NewMiddleware is given and requests *)
(* the server receives.                                                    *)
(***************************************************************************)
XToken         == <<"X","-","T","o","k","e","n">>
authorizationL == <<"a","u","t","h","o","r","i","z","a","t","i","o","n">>

\* values of DaprSentry.TokenHeader: unset, the default, the default in
\* lower case, and a custom header
TokenHeaders == {<<>>, Authorization, authorizationL, XToken}

\* values of Config.SkipPaths
SkipPathLists ==
    { <<>>,
      << <<"/","l","i","v","e","z">>, <<"/","a","p","i","/","*">> >> }

\* request paths
Paths == { <<"/","l","i","v","e","z">>, <<"/","a","p","i","/","u","s","e","r","s">>, <<"/","m","c","p">> }

\* values of the Authorization header: "Bearer ab", "bEARER  ab" (two
\* spaces), "Bearer " (nothing after the scheme), "ab", "Bearer"
AuthorizationValues ==
    { <<"B","e","a","r","e","r"," ","a","b">>,
      <<"b","E","A","R","E","R"," "," ","a","b">>,
      <<"B","e","a","r","e","r"," ">>,
      <<"a","b">>,
      <<"B","e","a","r","e","r">> }

\* values of the custom header: empty, and "Bearer cd"
CustomValues == { <<>>, <<"B","e","a","r","e","r"," ","c","d">> }

\* an http.Header holding the headers `names`
MkHeader(names, a, c) == [k \in names |-> IF k = Authorization THEN a ELSE c]

Headers ==
    { MkHeader(n, a, c) : n \in SUBSET {Authorization, XToken},
                          a \in AuthorizationValues, c \in CustomValues }

\* the context net/http gives an incoming request
BaseContext == [k \in {ServerContextKey} |-> "srv"]

\* incoming requests
Requests == [path : Paths, header : Headers, ctx : {BaseContext}]

\* the authenticators of the model: an implementation of the Authenticator
\* interface answers Mode() and, per call, returns an Identity or an error
Authenticators == [mode : {ModeOIDC, ModeSPIFFE}]

\* what authenticator a may return from Authenticate(ctx, token)
AuthResults(a) ==
    [id : {[Subject |-> sub, AuthMethod |-> a.mode] : sub \in Subjects}, err : {NoError}]
    \cup [id : {Nil}, err : AuthErrors]

\* type Config struct: the fields the middleware reads
Configs ==
    [Enabled    : BOOLEAN,
     Mode       : AuthModes,
     SkipPaths  : SkipPathLists,
     DaprSentry : [TokenHeader : TokenHeaders]]

\* the requests in flight that the model follows
RequestIds == {"r1", "r2"}

\* the requests served one at a time
Sequential == {"r1"}

(***************************************************************************)
(* The control-plane (Dapr Sentry) authenticator: DaprSentryAuthenticator. *)
(* Time is counted in ticks of the wall clock; a key is named by the key   *)
(* pair it belongs to, and a signature verifies under a key exactly when   *)
(* the token was signed with that key pair.                                *)
(***************************************************************************)
MaxTime == 3
RefreshInterval == 1

\* time.Time{}: the value of the field lastRefresh before the first refresh
ZeroTime == 0

ErrInvalidAudience == "invalid token audience"

SpiffeScheme == <<"s", "p", "i", "f", "f", "e", ":", "/", "/">>
Slash == "/"
Public == <<"p", "u", "b", "l", "i", "c">>

\* *jwt.NumericDate, Nil when the claim is absent
NumericDate(t) == [unix |-> t]

\* an error that wraps the sentinel kind: fmt.Errorf("%w: <detail>", kind)
Wrapped(kind, detail) == [kind |-> kind, detail |-> detail]

\* containsAudience(audiences, expected)
containsAudience(audiences, expected) ==
    \E i \in 1..Len(audiences) : audiences[i] = expected

\* strings.SplitN(s, "/", 2)
SplitN2(s) ==
    IF \E i \in 1..Len(s) : s[i] = Slash
    THEN LET i == CHOOSE j \in 1..Len(s) :
                      s[j] = Slash /\ \A k \in 1..(j - 1) : s[k] # Slash
         IN <<SubSeq(s, 1, i - 1), SubSeq(s, i + 1, Len(s))>>
    ELSE <<s>>

\* isValidSPIFFEID(subject, trustDomain)
isValidSPIFFEID(subject, trustDomain) ==
    IF ~HasPrefix(subject, SpiffeScheme)
    THEN FALSE
    ELSE LET withoutScheme == TrimPrefix(subject, SpiffeScheme)
             parts == SplitN2(withoutScheme)
         IN IF Len(parts) = 0 THEN FALSE ELSE parts[1] = trustDomain

\* getSigningKey's selection: the keys of the set under keyID, all keys when
\* keyID is empty (jwks.Key(keyID), jwks.Keys)
matchingKeys(jwks, keyID) ==
    IF keyID # ""
    THEN SelectSeq(jwks.Keys, LAMBDA k : k.KeyID = keyID)
    ELSE jwks.Keys

\* parsedJWT.Claims(key, &claims) succeeds: the signature verifies under key
signatureVerifiesAlways(token, key) == TRUE
signatureVerifies(token, key) == token.signedBy = key

\* now.After(claims.Expiry.Time())
tokenExpiredNever(claims, t) == FALSE
tokenExpired(claims, t) == claims.Expiry # Nil /\ t > claims.Expiry.unix

\* now.Before(claims.NotBefore.Time())
notYetValidNever(claims, t) == FALSE
notYetValid(claims, t) == claims.NotBefore # Nil /\ t < claims.NotBefore.unix

\* the audience check of Authenticate, made only when one is configured
audienceMismatchUnconditional(cfg, claims) ==
    ~containsAudience(claims.Audience, cfg.Audience)
audienceMismatch(cfg, claims) ==
    cfg.Audience # "" /\ ~containsAudience(claims.Audience, cfg.Audience)

\* identity.Claims: the entries Authenticate copies from the token's claims
IdentityClaims(claims) ==
    LET keys == (IF claims.ID # "" THEN {"jti"} ELSE {})
                \cup (IF claims.Use # "" THEN {"use"} ELSE {})
                \cup (IF claims.IssuedAt # Nil THEN {"iat"} ELSE {})
                \cup (IF claims.Expiry # Nil THEN {"exp"} ELSE {})
    IN [k \in keys |->
           CASE k = "jti" -> [str |-> claims.ID]
             [] k = "use" -> [str |-> claims.Use]
             [] k = "iat" -> [int |-> claims.IssuedAt.unix]
             [] k = "exp" -> [int |-> claims.Expiry.unix]]

\* the *Identity Authenticate builds
SentryIdentity(claims) ==
    [Subject |-> claims.Subject, Issuer |-> "", Audience |-> claims.Audience,
     AuthMethod |-> ModeDaprSentry, Claims |-> IdentityClaims(claims)]

\* (identity, err) as Authenticate returns them
Accepted(id) == [identity |-> id, err |-> Nil]
Failed(e) == [identity |-> Nil, err |-> e]

\* an Authenticate that compares the audience before the expiry
verifyClaimsAudienceFirst(cfg, token, claims, key, t) ==
    IF ~signatureVerifies(token, key)
    THEN Failed(Wrapped(ErrInvalidToken, "failed to verify JWT signature"))
    ELSE IF audienceMismatch(cfg, claims)
    THEN Failed(Wrapped(ErrInvalidAudience, "expected audience"))
    ELSE IF tokenExpired(claims, t)
    THEN Failed(Wrapped(ErrTokenExpired, ""))
    ELSE IF notYetValid(claims, t)
    THEN Failed(Wrapped(ErrInvalidToken, "token not yet valid"))
    ELSE IF claims.Subject = <<>>
    THEN Failed(Wrapped(ErrInvalidToken, "missing subject claim"))
    ELSE IF ~isValidSPIFFEID(claims.Subject, cfg.TrustDomain)
    THEN Failed(Wrapped(ErrInvalidToken, "invalid trust domain in subject"))
    ELSE Accepted(SentryIdentity(claims))

\* Authenticate from the signature check on: key is what getSigningKey
\* returned, t is time.Now() read after the signature verified
verifyClaims(cfg, token, claims, key, t) ==
    IF ~signatureVerifies(token, key)
    THEN Failed(Wrapped(ErrInvalidToken, "failed to verify JWT signature"))
    ELSE IF tokenExpired(claims, t)
    THEN Failed(Wrapped(ErrTokenExpired, ""))
    ELSE IF notYetValid(claims, t)
    THEN Failed(Wrapped(ErrInvalidToken, "token not yet valid"))
    ELSE IF audienceMismatch(cfg, claims)
    THEN Failed(Wrapped(ErrInvalidAudience, "expected audience"))
    ELSE IF claims.Subject = <<>>
    THEN Failed(Wrapped(ErrInvalidToken, "missing subject claim"))
    ELSE IF ~isValidSPIFFEID(claims.Subject, cfg.TrustDomain)
    THEN Failed(Wrapped(ErrInvalidToken, "invalid trust domain in subject"))
    ELSE Accepted(SentryIdentity(claims))

\* time.Since(lastRefresh) > a.config.RefreshInterval
cacheStale(last, t, interval) == t - last > interval

\* a.jwks = &jwks: what refreshJWKS stores over the cached set old
storeJWKSMerged(old, fetched) ==
    IF old = Nil THEN fetched ELSE [Keys |-> old.Keys \o fetched.Keys]
storeJWKS(old, fetched) == fetched

\* jose.JSONWebKey and jose.JSONWebKeySet, reduced to what the code reads
JSONWebKey(kid, key) == [KeyID |-> kid, Key |-> key]
JSONWebKeySet(keys) == [Keys |-> keys]

\* the key sets the JWKS endpoint may serve
KeySets ==
    {JSONWebKeySet(<<>>),
     JSONWebKeySet(<<JSONWebKey("k1", "K1")>>),
     JSONWebKeySet(<<JSONWebKey("k2", "K2")>>),
     JSONWebKeySet(<<JSONWebKey("k1", "K1"), JSONWebKey("k2", "K2")>>)}

\* the ways refreshJWKS fails before it stores anything
FetchErrors ==
    {"failed to fetch JWKS", "JWKS endpoint returned status",
     "failed to read JWKS response", "failed to parse JWKS"}

\* a compact JWS as jwt.ParseSigned sees it: the kid of its header and the
\* key pair that signed it; Malformed is a string ParseSigned rejects
JWSTokens == [form : {"jws"}, KeyID : {"", "k1", "k2"}, signedBy : {"K1", "K2"}]
Malformed == [form |-> "malformed", KeyID |-> "", signedBy |-> ""]
SentryTokens == JWSTokens \cup {Malformed}

\* the subject claims of the tokens
SentrySubjects ==
    {<<>>,
     SpiffeScheme,
     SpiffeScheme \o Public,
     SpiffeScheme \o Public \o <<"/">>,
     SpiffeScheme \o Public \o <<"/", "n", "s", "/", "a", "p", "p">>,
     SpiffeScheme \o Public \o <<"x", "/", "a", "p", "p">>,
     SpiffeScheme \o <<"o", "t", "h", "e", "r", "/", "a", "p", "p">>,
     <<"h", "t", "t", "p", "s", ":", "/", "/">> \o Public \o <<"/", "a", "p", "p">>}

\* daprSentryClaims: the payload of a token
SentryClaims ==
    [Subject   : SentrySubjects,
     Audience  : {<<>>, <<"other", "public">>},
     Expiry    : {Nil, NumericDate(ZeroTime + 1), NumericDate(MaxTime - 1)},
     NotBefore : {Nil, NumericDate(MaxTime)},
     IssuedAt  : {Nil},
     ID        : {"j1"},
     Use       : {""}]

\* DaprSentryConfig: the fields the authenticator reads
SentryConfigs ==
    [TrustDomain     : {Public},
     Audience        : {"", "public"},
     RefreshInterval : {RefreshInterval}]

\* the goroutines that call Authenticate
Callers == {"c1", "c2"}

\* the callers that run one after the other
OneCaller == {"c1"}

\* the local variables of one Authenticate call and of the getSigningKey and
\* refreshJWKS calls it makes; fetches lists the refreshJWKS calls made, each
\* with its cause and whether it succeeded
IdleCall ==
    [pc |-> "idle", token |-> Malformed, jwks |-> Nil, lastRefresh |-> ZeroTime,
     cause |-> "", fetched |-> Nil, matchingKeys |-> <<>>, fetches |-> <<>>,
     lookups |-> <<>>, claims |-> Nil, now |-> ZeroTime, result |-> Nil]

VARIABLES
    sentryConfig,    \* DaprSentryAuthenticator.config
    built,           \* "no" before the constructor ran, then "yes" or "error"
    jwks,            \* DaprSentryAuthenticator.jwks, Nil for the nil pointer
    lastRefresh,     \* DaprSentryAuthenticator.lastRefresh
    jwksMu,          \* DaprSentryAuthenticator.jwksMu: writer and readers holding it
    clock,           \* the wall clock, what time.Now() returns
    served,          \* the key set the JWKS endpoint serves at present
    call,            \* per caller: the locals of its Authenticate call
    initialFetches,  \* the refreshJWKS calls the constructor made, each with its outcome
    stored,          \* the (jwks, lastRefresh) pair the last completed store wrote
    newest           \* the key set of the fetch that completed last, Nil before any

sentryVars == <<sentryConfig, built, jwks, lastRefresh, jwksMu, clock, served, call,
                initialFetches, stored, newest>>

Unlocked == [writer |-> "", readers |-> {}]

\* a key set and a refresh time as one refreshJWKS leaves them
Pair(keys, t) == [jwks |-> keys, lastRefresh |-> t]

\* the authenticator when the server is not configured to build one
SentryUnused ==
    /\ sentryConfig = [TrustDomain |-> Public, Audience |-> "",
                       RefreshInterval |-> RefreshInterval]
    /\ built = "no"
    /\ jwks = Nil
    /\ lastRefresh = ZeroTime
    /\ jwksMu = Unlocked
    /\ clock = ZeroTime + 1
    /\ served = JSONWebKeySet(<<>>)
    /\ call = [c \in Callers |-> IdleCall]
    /\ initialFetches = <<>>
    /\ stored = Pair(Nil, ZeroTime)
    /\ newest = Nil

(***************************************************************************)
(* State.                                                                  *)
(***************************************************************************)
VARIABLES
    config,          \* Middleware.config
    authenticators,  \* Middleware.authenticators
    req,             \* per request: the *http.Request, Nil before it arrives
    pc,              \* per request: position in Handler's function
    extracted,       \* per request: (token, headerUsed), Nil before extraction
    idx,             \* per request: position of the range loop (1-based)
    identity,        \* per request: local variable identity
    lastErr,         \* per request: local variable lastErr
    authLog,         \* per request: the Authenticate calls made, in order
    nextLog,         \* per request: the next.ServeHTTP calls made, in order
    written          \* per request: what the middleware wrote to w, Nil if nothing

middlewareVars == <<config, authenticators, req, pc, extracted, idx, identity,
                    lastErr, authLog, nextLog, written>>

VARIABLES
    ready,           \* health.Handler.ready
    daprClient,      \* health.Handler.daprClient, Nil for a nil client
    setLog,          \* the values SetReady stored, in order
    response,        \* what ReadinessHandler last wrote, Nil before any probe
    probe            \* the flag the probe in flight loaded, Nil when none is

healthVars == <<ready, daprClient, setLog, response, probe>>

\* no health handler takes part
NoProbe ==
    ready = TRUE /\ daprClient = Nil /\ setLog = <<>> /\ response = Nil /\ probe = Nil

VARIABLES
    args,            \* the arguments of a call of a function examined on its own
    returned         \* what that call returned, Nil before it is made

callVars == <<args, returned>>

\* no such call is examined and no probe is served
Uncalled == args = Nil /\ returned = Nil /\ NoProbe

vars == <<middlewareVars, sentryVars, callVars, healthVars>>

\* NewMiddleware(cfg, authenticators, logger), no request received yet
InitWith(cfgs, auths) ==
    /\ config \in cfgs
    /\ authenticators \in auths
    /\ req = [r \in RequestIds |-> Nil]
    /\ pc = [r \in RequestIds |-> "idle"]
    /\ extracted = [r \in RequestIds |-> Nil]
    /\ idx = [r \in RequestIds |-> 1]
    /\ identity = [r \in RequestIds |-> Nil]
    /\ lastErr = [r \in RequestIds |-> NoError]
    /\ authLog = [r \in RequestIds |-> <<>>]
    /\ nextLog = [r \in RequestIds |-> <<>>]
    /\ written = [r \in RequestIds |-> Nil]

Init == InitWith(Configs, SeqsUpTo(Authenticators, MaxAuth)) /\ SentryUnused /\ Uncalled

\* the server hands request q to the handler Handler returned
Arrive(r, q) ==
    /\ pc[r] = "idle"
    /\ req' = [req EXCEPT ![r] = q]
    /\ pc' = [pc EXCEPT ![r] = "received"]
    /\ UNCHANGED <<config, authenticators, extracted, idx, identity, lastErr,
                   authLog, nextLog, written>>

Receive(r) == \E q \in Requests : Arrive(r, q)

\* next.ServeHTTP(w, r) with request context ctx
CallNext(r, ctx) == nextLog' = [nextLog EXCEPT ![r] = Append(@, [ctx |-> ctx])]

\* Handler, from its entry to the first authenticator call or to a return:
\* skip check, disabled check, token extraction, empty-token rejection
HandlerEntry(r) ==
    /\ pc[r] = "received"
    /\ IF shouldSkip(config.SkipPaths, req[r].path)
       THEN /\ CallNext(r, req[r].ctx)
            /\ pc' = [pc EXCEPT ![r] = "passed_skip"]
            /\ UNCHANGED <<extracted, written>>
       ELSE IF authDisabled(config)
       THEN /\ CallNext(r, req[r].ctx)
            /\ pc' = [pc EXCEPT ![r] = "passed_disabled"]
            /\ UNCHANGED <<extracted, written>>
       ELSE LET ex == extractTokenWithSource(config, req[r].header)
            IN  /\ extracted' = [extracted EXCEPT ![r] = ex]
                /\ IF tokenMissing(ex.token)
                   THEN /\ written' = [written EXCEPT ![r] = rejectNoToken]
                        /\ pc' = [pc EXCEPT ![r] = "rejected_no_token"]
                   ELSE /\ pc' = [pc EXCEPT ![r] = "authenticating"]
                        /\ UNCHANGED written
                /\ UNCHANGED nextLog
    /\ UNCHANGED <<config, authenticators, req, idx, identity, lastErr, authLog>>

\* one iteration of the range loop: auth.Authenticate(r.Context(), token)
Authenticate(r) ==
    /\ pc[r] = "authenticating"
    /\ ~loopDone(identity[r], idx[r], Len(authenticators))
    /\ idx[r] <= Len(authenticators)
    /\ \E res \in AuthResults(authenticators[idx[r]]) :
        /\ authLog' = [authLog EXCEPT ![r] =
                          Append(@, [index |-> idx[r],
                                     mode  |-> authenticators[idx[r]].mode,
                                     token |-> extracted[r].token,
                                     id    |-> res.id,
                                     err   |-> res.err])]
        /\ IF res.err = NoError
           THEN /\ identity' = [identity EXCEPT ![r] = res.id]
                /\ UNCHANGED lastErr
           ELSE /\ lastErr' = [lastErr EXCEPT ![r] = res.err]
                /\ UNCHANGED identity
    /\ idx' = [idx EXCEPT ![r] = @ + 1]
    /\ UNCHANGED <<config, authenticators, req, pc, extracted, nextLog, written>>

\* a local variable of the handler function: one per request served
handlerShared(v, r) == v["r1"]
handlerLocal(v, r) == v[r]

\* after the loop: 401 when identity is nil, else attach it and call next
Finish(r) ==
    /\ pc[r] = "authenticating"
    /\ loopDone(identity[r], idx[r], Len(authenticators))
    /\ IF identity[r] = Nil
       THEN /\ written' = [written EXCEPT ![r] = rejectInvalidToken(lastErr[r])]
            /\ pc' = [pc EXCEPT ![r] = "rejected_invalid"]
            /\ UNCHANGED nextLog
       ELSE /\ CallNext(r, forwardedContext(req[r].ctx, handlerLocal(identity, r)))
            /\ pc' = [pc EXCEPT ![r] = "passed_authenticated"]
            /\ UNCHANGED written
    /\ UNCHANGED <<config, authenticators, req, extracted, idx, identity, lastErr,
                   authLog>>

Next ==
    /\ \E r \in Sequential :
           \/ Receive(r)
           \/ HandlerEntry(r)
           \/ Authenticate(r)
           \/ Finish(r)
    /\ UNCHANGED <<sentryVars, callVars, healthVars>>

Spec == Init /\ [][Next]_vars

(***************************************************************************)
(* Bounded-string specification: the same handler, with skip patterns and  *)
(* paths drawn from every string of at most MaxLen characters over a small *)
(* alphabet, and the patterns and paths of TestShouldSkip.                 *)
(***************************************************************************)
SkipAlphabet == {"a", "*"}

ExamplePatterns == { <<"/","a","p","i","/","*">>, <<"/","e","x","a","c","t">> }
ExamplePaths    == { <<"/","a","p","i">>, <<"/","a","p","i","/">>, <<"/","a","p","i","/","u","s","e","r","s">>, <<"/","e","x","a","c","t">>, <<"/","e","x","a","c","t","m","o","r","e">> }

BoundedPatterns == SeqsUpTo(SkipAlphabet, MaxLen) \cup ExamplePatterns
BoundedPaths    == SeqsUpTo(SkipAlphabet, MaxLen) \cup ExamplePaths

SkipConfigs ==
    [Enabled    : {TRUE},
     Mode       : {ModeOIDC},
     SkipPaths  : SeqsUpTo(BoundedPatterns, MaxSkip),
     DaprSentry : [TokenHeader : {Authorization}]]

SkipRequests ==
    [path   : BoundedPaths,
     header : {MkHeader({Authorization}, <<"a","b">>, <<>>)},
     ctx    : {BaseContext}]

InitSkip == InitWith(SkipConfigs, {<<[mode |-> ModeOIDC]>>}) /\ SentryUnused /\ Uncalled

ReceiveBounded(r) == \E q \in SkipRequests : Arrive(r, q)

NextSkip ==
    /\ \E r \in Sequential :
           \/ ReceiveBounded(r)
           \/ HandlerEntry(r)
           \/ Authenticate(r)
           \/ Finish(r)
    /\ UNCHANGED <<sentryVars, callVars, healthVars>>

SpecSkip == InitSkip /\ [][NextSkip]_vars

(***************************************************************************)
(* Concurrent requests: net/http serves each request in a goroutine of its *)
(* own, so the steps of the handler for two requests interleave.           *)
(***************************************************************************)
BearerCd == <<"B","e","a","r","e","r"," ","c","d">>

ConcurrentConfigs ==
    [Enabled    : BOOLEAN,
     Mode       : {ModeHybrid},
     SkipPaths  : {<< <<"/","l","i","v","e","z">> >>},
     DaprSentry : [TokenHeader : {Authorization}]]

ConcurrentRequests ==
    [path   : { <<"/","l","i","v","e","z">>, <<"/","m","c","p">> },
     header : { MkHeader({Authorization}, <<"B","e","a","r","e","r"," ","a","b">>, <<>>),
                MkHeader({Authorization}, BearerCd, <<>>),
                MkHeader({}, <<>>, <<>>) },
     ctx    : {BaseContext}]

InitRequests ==
    /\ InitWith(ConcurrentConfigs,
                {<<[mode |-> ModeOIDC]>>, <<[mode |-> ModeOIDC], [mode |-> ModeSPIFFE]>>})
    /\ SentryUnused
    /\ Uncalled

ReceiveConcurrent(r) == \E q \in ConcurrentRequests : Arrive(r, q)

NextRequests ==
    /\ \E r \in RequestIds :
           \/ ReceiveConcurrent(r)
           \/ HandlerEntry(r)
           \/ Authenticate(r)
           \/ Finish(r)
    /\ UNCHANGED <<sentryVars, callVars, healthVars>>

SpecRequests == InitRequests /\ [][NextRequests]_vars

(***************************************************************************)
(* Config.Validate and the Validate methods of the three strategy          *)
(* configurations.  An error is the text of its message; NoError is nil.   *)
(***************************************************************************)
ErrUnsupportedMethod == "unsupported authentication method"

\* OIDCConfig.Validate without the client ID check
validateOIDCIssuerOnly(c) ==
    IF ~c.Enabled THEN NoError
    ELSE IF c.IssuerURL = "" THEN "OIDC_ISSUER_URL is required"
    ELSE NoError

\* OIDCConfig.Validate
validateOIDC(c) ==
    IF ~c.Enabled THEN NoError
    ELSE IF c.IssuerURL = "" THEN "OIDC_ISSUER_URL is required"
    ELSE IF c.ClientID = "" THEN "OIDC_CLIENT_ID is required"
    ELSE NoError

\* SPIFFEConfig.Validate
validateSPIFFE(c) ==
    IF ~c.Enabled THEN NoError
    ELSE IF c.TrustDomain = "" THEN "SPIFFE_TRUST_DOMAIN is required"
    ELSE IF c.ServerID = "" THEN "SPIFFE_SERVER_ID is required"
    ELSE NoError

\* DaprSentryConfig.Validate
validateDaprSentry(c) ==
    IF ~c.Enabled THEN NoError
    ELSE IF c.JWKSUrl = "" THEN "DAPR_SENTRY_JWKS_URL is required"
    ELSE IF c.TrustDomain = "" THEN "DAPR_SENTRY_TRUST_DOMAIN is required"
    ELSE NoError

\* the first test of the hybrid case, without the control-plane strategy
noneEnabledOfTwo(c) == ~c.OIDC.Enabled /\ ~c.SPIFFE.Enabled

\* !c.OIDC.Enabled && !c.SPIFFE.Enabled && !c.DaprSentry.Enabled
noneEnabled(c) == ~c.OIDC.Enabled /\ ~c.SPIFFE.Enabled /\ ~c.DaprSentry.Enabled

\* the hybrid case of Config.Validate
validateHybrid(c) ==
    IF noneEnabled(c) THEN ErrUnsupportedMethod
    ELSE IF c.OIDC.Enabled /\ validateOIDC(c.OIDC) # NoError THEN validateOIDC(c.OIDC)
    ELSE IF c.SPIFFE.Enabled /\ validateSPIFFE(c.SPIFFE) # NoError
    THEN validateSPIFFE(c.SPIFFE)
    ELSE IF c.DaprSentry.Enabled /\ validateDaprSentry(c.DaprSentry) # NoError
    THEN validateDaprSentry(c.DaprSentry)
    ELSE NoError

\* Config.Validate
Validate(c) ==
    IF ~c.Enabled THEN NoError
    ELSE CASE c.Mode = ModeOIDC ->
                  IF ~c.OIDC.Enabled THEN ErrUnsupportedMethod ELSE validateOIDC(c.OIDC)
           [] c.Mode = ModeSPIFFE ->
                  IF ~c.SPIFFE.Enabled THEN ErrUnsupportedMethod
                  ELSE validateSPIFFE(c.SPIFFE)
           [] c.Mode = ModeDaprSentry ->
                  IF ~c.DaprSentry.Enabled THEN ErrUnsupportedMethod
                  ELSE validateDaprSentry(c.DaprSentry)
           [] c.Mode = ModeHybrid -> validateHybrid(c)
           [] c.Mode = ModeDisabled -> NoError
           [] OTHER -> ErrUnsupportedMethod

\* the values of a string field: unset, and set
FieldValues == {"", "x"}

\* the configurations given to Validate: the fields it reads; the mode is
\* one of the five of the program or a word that is none of them
ValidateConfigs ==
    [Enabled    : BOOLEAN,
     Mode       : AuthModes \cup {"ldap"},
     OIDC       : [Enabled : BOOLEAN, IssuerURL : FieldValues, ClientID : FieldValues],
     SPIFFE     : [Enabled : BOOLEAN, TrustDomain : FieldValues, ServerID : FieldValues],
     DaprSentry : [Enabled : BOOLEAN, JWKSUrl : FieldValues, TrustDomain : FieldValues]]

\* no request and no authenticator take part in a call examined on its own
NoServer ==
    /\ InitWith({[Enabled |-> FALSE, Mode |-> ModeDisabled, SkipPaths |-> <<>>,
                  DaprSentry |-> [TokenHeader |-> <<>>]]}, {<<>>})
    /\ SentryUnused
    /\ NoProbe

InitValidate ==
    /\ NoServer
    /\ args \in ValidateConfigs
    /\ returned = Nil

\* err := cfg.Validate()
CallValidate ==
    /\ returned = Nil
    /\ returned' = [err |-> Validate(args)]
    /\ UNCHANGED <<args, middlewareVars, sentryVars, healthVars>>

NextValidate == CallValidate

SpecValidate == InitValidate /\ [][NextValidate]_vars

(***************************************************************************)
(* main (cmd/daprmcp/main.go): the configuration is validated, and under   *)
(* an enabled configuration with a mode other than disabled the            *)
(* authenticators are built and handed to NewMiddleware.  A constructor    *)
(* reaches its provider over the network and may fail.                     *)
(***************************************************************************)
ErrCreateOIDC   == "failed to create OIDC authenticator"
ErrCreateSPIFFE == "failed to create SPIFFE authenticator"

\* what a constructor of an authenticator may return as its error
ConstructorErrors(failure) == {NoError, failure}

\* buildAuthenticators(ctx, cfg, logger): the switch on cfg.Mode has the
\* cases oidc, spiffe and hybrid, and hybrid looks at OIDC and SPIFFE
buildAuthenticators(cfg, oidcErr, spiffeErr) ==
    CASE cfg.Mode = ModeOIDC ->
             IF oidcErr # NoError THEN [authenticators |-> <<>>, err |-> oidcErr]
             ELSE [authenticators |-> <<[mode |-> ModeOIDC]>>, err |-> NoError]
      [] cfg.Mode = ModeSPIFFE ->
             IF spiffeErr # NoError THEN [authenticators |-> <<>>, err |-> spiffeErr]
             ELSE [authenticators |-> <<[mode |-> ModeSPIFFE]>>, err |-> NoError]
      [] cfg.Mode = ModeHybrid ->
             IF cfg.OIDC.Enabled /\ oidcErr # NoError
             THEN [authenticators |-> <<>>, err |-> oidcErr]
             ELSE IF cfg.SPIFFE.Enabled /\ spiffeErr # NoError
             THEN [authenticators |-> <<>>, err |-> spiffeErr]
             ELSE [authenticators |->
                       (IF cfg.OIDC.Enabled THEN <<[mode |-> ModeOIDC]>> ELSE <<>>)
                       \o (IF cfg.SPIFFE.Enabled THEN <<[mode |-> ModeSPIFFE]>> ELSE <<>>),
                   err |-> NoError]
      [] OTHER -> [authenticators |-> <<>>, err |-> NoError]

\* main's choice of the middleware once Validate returned nil
initAuthentication(cfg, oidcErr, spiffeErr) ==
    IF cfg.Enabled /\ cfg.Mode # ModeDisabled
    THEN LET b == buildAuthenticators(cfg, oidcErr, spiffeErr)
         IN  IF b.err # NoError
             THEN [err |-> NoError, exit |-> 1, middleware |-> "none",
                   authenticators |-> <<>>]
             ELSE [err |-> NoError, exit |-> 0, middleware |-> "Middleware",
                   authenticators |-> b.authenticators]
    ELSE [err |-> NoError, exit |-> 0, middleware |-> "NoopMiddleware",
          authenticators |-> <<>>]

InitMain ==
    /\ NoServer
    /\ args \in ValidateConfigs
    /\ returned = Nil

\* main: err := authConfig.Validate(); os.Exit(1) on an error
MainValidate ==
    /\ returned = Nil
    /\ returned' = [err |-> Validate(args)]
    /\ UNCHANGED <<args, middlewareVars, sentryVars, healthVars>>

\* main: buildAuthenticators and NewMiddleware, or NoopMiddleware
MainInitAuthentication ==
    /\ DOMAIN returned = {"err"}
    /\ returned.err = NoError
    /\ \E oidcErr \in ConstructorErrors(ErrCreateOIDC),
          spiffeErr \in ConstructorErrors(ErrCreateSPIFFE) :
           returned' = initAuthentication(args, oidcErr, spiffeErr)
    /\ UNCHANGED <<args, middlewareVars, sentryVars, healthVars>>

NextMain == MainValidate \/ MainInitAuthentication

SpecMain == InitMain /\ [][NextMain]_vars

(***************************************************************************)
(* The SPIFFE authenticator.  A spiffeid.ID is its trust domain and path;  *)
(* a JWT-SVID is reduced to what ParseAndValidate decides on and what      *)
(* Authenticate reads: whether it verifies against the trust bundle of the *)
(* Workload API and is within its lifetime, its ID, and its audiences.     *)
(***************************************************************************)
ErrInvalidIssuer == "invalid token issuer"

\* spiffeid.ID.String() and spiffeid.ID.TrustDomain().Name()
IDString(id) == "spiffe://" \o id.td \o id.path
TrustDomainName(id) == id.td

\* the SPIFFE IDs of the model
SPIFFEIDs == [td : {"public", "other"}, path : {"/app", "/db", "/server", "/elsewhere"}]

\* spiffeid.FromString(s): the ID whose string form s is, or an error
FromString(s) ==
    IF \E id \in SPIFFEIDs : IDString(id) = s
    THEN [id |-> CHOOSE id \in SPIFFEIDs : IDString(id) = s, err |-> NoError]
    ELSE [id |-> Nil, err |-> "invalid server SPIFFE ID"]

\* what workloadapi.NewJWTSource may return as its error: nil, the deadline
\* of the connection passed, or another failure
JWTSourceErrors ==
    {NoError, "timeout connecting to SPIRE agent", "failed to create JWT source"}

\* NewSPIFFEAuthenticator(ctx, cfg), sourceErr being what NewJWTSource
\* returned: the authenticator, or nil and an error
NewSPIFFEAuthenticator(cfg, sourceErr) ==
    IF FromString(cfg.ServerID).err # NoError
    THEN [authenticator |-> Nil, err |-> FromString(cfg.ServerID).err]
    ELSE IF sourceErr # NoError
    THEN [authenticator |-> Nil, err |-> sourceErr]
    ELSE [authenticator |->
              [config   |-> cfg,
               serverID |-> FromString(cfg.ServerID).id,
               allowed  |-> {cfg.AllowedClients[i] : i \in 1..Len(cfg.AllowedClients)}],
          err |-> NoError]

\* jwtsvid.ParseAndValidate(token, source, audience): the SVID, or an error
\* when the token does not verify or lists none of the expected audiences
ParseAndValidate(token, audience) ==
    IF ~token.verifies THEN [svid |-> Nil, err |-> "token verification failed"]
    ELSE IF ~\E i \in 1..Len(token.Audience) : token.Audience[i] \in audience
    THEN [svid |-> Nil, err |-> "expected audience not in token"]
    ELSE [svid |-> [ID |-> token.ID, Audience |-> token.Audience,
                    Claims |-> token.Claims],
          err |-> NoError]

\* Authenticate after ParseAndValidate, with the allow-list consulted first
checkSVIDAllowListFirst(a, svid) ==
    IF Cardinality(a.allowed) > 0 /\ IDString(svid.ID) \notin a.allowed
    THEN Failed(Wrapped(ErrInvalidToken, "client not in allowlist"))
    ELSE IF TrustDomainName(svid.ID) # a.config.TrustDomain
    THEN Failed(Wrapped(ErrInvalidIssuer, "trust domain mismatch"))
    ELSE Accepted([Subject |-> IDString(svid.ID), Issuer |-> TrustDomainName(svid.ID),
                   Audience |-> svid.Audience, Claims |-> svid.Claims,
                   AuthMethod |-> ModeSPIFFE])

\* Authenticate after ParseAndValidate: trust domain, allow-list, identity
checkSVID(a, svid) ==
    IF TrustDomainName(svid.ID) # a.config.TrustDomain
    THEN Failed(Wrapped(ErrInvalidIssuer, "trust domain mismatch"))
    ELSE IF Cardinality(a.allowed) > 0 /\ IDString(svid.ID) \notin a.allowed
    THEN Failed(Wrapped(ErrInvalidToken, "client not in allowlist"))
    ELSE Accepted([Subject |-> IDString(svid.ID), Issuer |-> TrustDomainName(svid.ID),
                   Audience |-> svid.Audience, Claims |-> svid.Claims,
                   AuthMethod |-> ModeSPIFFE])

\* SPIFFEAuthenticator.Authenticate
SPIFFEAuthenticate(a, token) ==
    LET parsed == ParseAndValidate(token, {IDString(a.serverID)})
    IN  IF parsed.err # NoError
        THEN Failed(Wrapped(ErrInvalidToken, parsed.err))
        ELSE checkSVID(a, parsed.svid)

ServerID == "spiffe://public/server"

\* the JWT-SVIDs presented
SVIDTokens ==
    [verifies : BOOLEAN,
     ID       : [td : {"public", "other"}, path : {"/app", "/db"}],
     Audience : {<<>>, <<ServerID>>, <<"spiffe://public/elsewhere">>,
                 <<"spiffe://public/elsewhere", ServerID>>},
     Claims   : {[sub |-> "claims"]}]

\* the SPIFFE configurations: the allow-list is empty, or names members of
\* the trust domain, or of another one
SPIFFEConfigs ==
    [TrustDomain    : {"public"},
     ServerID       : {ServerID, "x"},
     AllowedClients : {<<>>, <<"spiffe://public/app">>, <<"spiffe://other/app">>,
                       <<"spiffe://public/db", "spiffe://other/app">>}]

InitSPIFFE ==
    /\ NoServer
    /\ args \in [cfg : SPIFFEConfigs, token : SVIDTokens]
    /\ returned = Nil

\* a, err := NewSPIFFEAuthenticator(ctx, cfg)
CallNewSPIFFEAuthenticator ==
    /\ returned = Nil
    /\ \E sourceErr \in JWTSourceErrors :
           returned' = NewSPIFFEAuthenticator(args.cfg, sourceErr)
    /\ UNCHANGED <<args, middlewareVars, sentryVars, healthVars>>

\* a.Authenticate(ctx, token), on the authenticator the constructor returned
\* with a nil error
CallSPIFFEAuthenticate ==
    /\ "authenticator" \in DOMAIN returned
    /\ returned.err = NoError
    /\ returned' = SPIFFEAuthenticate(returned.authenticator, args.token)
    /\ UNCHANGED <<args, middlewareVars, sentryVars, healthVars>>

NextSPIFFE == CallNewSPIFFEAuthenticator \/ CallSPIFFEAuthenticate

SpecSPIFFE == InitSPIFFE /\ [][NextSPIFFE]_vars

(***************************************************************************)
(* The identity carrier on its own: WithIdentity applied to a context that *)
(* may hold other keys and, under identityKey, nothing, an *Identity, a    *)
(* nil *Identity, or a value of another type.                              *)
(***************************************************************************)
OtherKey == "other-key"

\* a value of another type than *Identity
OtherTyped == [other |-> "not-an-identity"]

\* context.WithValue(ctx, k, v)
WithValue(ctx, k, v) == [j \in DOMAIN ctx \cup {k} |-> IF j = k THEN v ELSE ctx[j]]

CarrierContexts ==
    LET plain == {BaseContext, WithValue(BaseContext, OtherKey, "other-value")}
    IN  plain \cup {WithValue(c, identityKey, v) :
                        c \in plain, v \in Identity \cup {Nil, OtherTyped}}

InitCarrier ==
    /\ NoServer
    /\ args \in [ctx : CarrierContexts, id : Identity \cup {Nil}]
    /\ returned = Nil

\* ctx2 := WithIdentity(ctx, id)
CallWithIdentity ==
    /\ returned = Nil
    /\ returned' = [ctx |-> WithIdentity(args.ctx, args.id)]
    /\ UNCHANGED <<args, middlewareVars, sentryVars, healthVars>>

NextCarrier == CallWithIdentity

SpecCarrier == InitCarrier /\ [][NextCarrier]_vars

(***************************************************************************)
(* The health handler (package health): the ready flag and the readiness   *)
(* probe.  The latency of the Dapr check is left out of a CheckResult.     *)
(***************************************************************************)
\* the number of SetReady calls followed
MaxSets == 3

StatusHealthy   == "healthy"
StatusUnhealthy == "unhealthy"
StatusDegraded  == "degraded"

StatusOK                 == 200
StatusServiceUnavailable == 503

CheckResult(status, component, message) ==
    [Status |-> status, Component |-> component, Message |-> message]

\* the answers of daprClient.GetMetadata: nil, or an error
MetadataErrors == {NoError, "connection refused"}

\* checkDapr, err being what GetMetadata returned
checkDapr(client, err) ==
    IF client = Nil
    THEN CheckResult(StatusUnhealthy, "dapr", "dapr client not initialized")
    ELSE IF err # NoError
    THEN CheckResult(StatusUnhealthy, "dapr", err)
    ELSE CheckResult(StatusHealthy, "dapr", "sidecar connected")

\* a failing Dapr check lowers the overall status whatever it was
degradeAlways(overallStatus, check) ==
    IF check.Status # StatusHealthy THEN StatusDegraded ELSE overallStatus

\* ReadinessHandler: the effect of the Dapr check on the overall status
degrade(overallStatus, check) ==
    IF check.Status # StatusHealthy /\ overallStatus = StatusHealthy
    THEN StatusDegraded
    ELSE overallStatus

\* ReadinessHandler, with the flag it loaded and what GetMetadata returned
readiness(isReady, client, err) ==
    LET serverChecks ==
            IF ~isReady
            THEN <<CheckResult(StatusUnhealthy, "server", "server not ready")>>
            ELSE <<>>
        status0 == IF ~isReady THEN StatusUnhealthy ELSE StatusHealthy
        http    == IF ~isReady THEN StatusServiceUnavailable ELSE StatusOK
    IN  IF client # Nil
        THEN [httpStatus |-> http,
              Status     |-> degrade(status0, checkDapr(client, err)),
              Checks     |-> Append(serverChecks, checkDapr(client, err))]
        ELSE [httpStatus |-> http, Status |-> status0, Checks |-> serverChecks]

DaprClient == [client |-> "dapr"]

\* NewHandler(daprClient, version)
InitHealth ==
    /\ InitWith({[Enabled |-> FALSE, Mode |-> ModeDisabled, SkipPaths |-> <<>>,
                  DaprSentry |-> [TokenHeader |-> <<>>]]}, {<<>>})
    /\ SentryUnused
    /\ args = Nil /\ returned = Nil
    /\ ready = TRUE
    /\ daprClient \in {Nil, DaprClient}
    /\ setLog = <<>>
    /\ response = Nil
    /\ probe = Nil

\* h.SetReady(b)
SetReady(b) ==
    /\ Len(setLog) < MaxSets
    /\ ready' = b
    /\ setLog' = Append(setLog, b)
    /\ UNCHANGED <<daprClient, response, probe>>

\* GET /readyz, up to h.ready.Load()
ReadinessLoad ==
    /\ probe = Nil
    /\ probe' = [isReady |-> ready]
    /\ UNCHANGED <<ready, daprClient, setLog, response>>

\* GET /readyz, from the Dapr check to the response written: GetMetadata
\* has returned, the flag is the one loaded before the check
ReadinessWrite ==
    /\ probe # Nil
    /\ \E err \in MetadataErrors :
           response' = readiness(probe.isReady, daprClient, err)
    /\ probe' = Nil
    /\ UNCHANGED <<ready, daprClient, setLog>>

\* GET /readyz
ReadinessHandler == ReadinessLoad \/ ReadinessWrite

NextHealth ==
    /\ \/ \E b \in BOOLEAN : SetReady(b)
       \/ ReadinessHandler
    /\ UNCHANGED <<middlewareVars, sentryVars, callVars>>

SpecHealth == InitHealth /\ [][NextHealth]_vars

(***************************************************************************)
(* The control-plane authenticator's steps.  A step is what one goroutine  *)
(* does between two points where another may run: taking or releasing      *)
(* jwksMu, and the HTTP fetch.                                             *)
(***************************************************************************)
\* getSigningKey after its first reads of a.jwks: nil check and key lookup
firstLookup(cl, jw) ==
    IF jw = Nil
    THEN [cl EXCEPT !.pc = "done", !.jwks = jw,
                    !.result = Failed(Wrapped(ErrInvalidToken, "no JWKS available"))]
    ELSE LET m == matchingKeys(jw, cl.token.KeyID)
         IN IF Len(m) = 0
            THEN [cl EXCEPT !.pc = "fetch", !.jwks = jw, !.cause = "miss",
                            !.lookups = Append(@, m)]
            ELSE [cl EXCEPT !.pc = "verify", !.jwks = jw, !.matchingKeys = m,
                            !.lookups = Append(@, m)]

\* getSigningKey after the refresh a miss caused: the lookup, once more
retryLookupAgain(cl, jw) ==
    LET m == matchingKeys(jw, cl.token.KeyID)
    IN IF Len(m) = 0
       THEN IF Len(cl.fetches) <= MaxTime
            THEN [cl EXCEPT !.pc = "fetch", !.jwks = jw, !.lookups = Append(@, m)]
            ELSE [cl EXCEPT !.pc = "done", !.jwks = jw, !.lookups = Append(@, m),
                            !.result = Failed(Wrapped(ErrInvalidToken,
                                                      "key not found in JWKS"))]
       ELSE [cl EXCEPT !.pc = "verify", !.jwks = jw, !.matchingKeys = m,
                       !.lookups = Append(@, m)]
retryLookup(cl, jw) ==
    LET m == matchingKeys(jw, cl.token.KeyID)
    IN IF Len(m) = 0
       THEN [cl EXCEPT !.pc = "done", !.jwks = jw, !.lookups = Append(@, m),
                       !.result = Failed(Wrapped(ErrInvalidToken,
                                                 "key not found in JWKS"))]
       ELSE [cl EXCEPT !.pc = "verify", !.jwks = jw, !.matchingKeys = m,
                       !.lookups = Append(@, m)]

\* what the caller of refreshJWKS does with the error e it returned
afterFetchErrorFatal(cl, e) ==
    [cl EXCEPT !.pc = "done",
               !.fetches = Append(@, [cause |-> cl.cause, ok |-> FALSE]),
               !.result = Failed(Wrapped(ErrInvalidToken,
                                         "key not found and refresh failed: " \o e))]
afterFetchError(cl, e) ==
    IF cl.cause = "stale"
    THEN [cl EXCEPT !.pc = "rlock",
                    !.fetches = Append(@, [cause |-> cl.cause, ok |-> FALSE])]
    ELSE [cl EXCEPT !.pc = "done",
                    !.fetches = Append(@, [cause |-> cl.cause, ok |-> FALSE]),
                    !.result = Failed(Wrapped(ErrInvalidToken,
                                              "key not found and refresh failed: " \o e))]

\* what the constructor returns after its refreshJWKS: the authenticator
\* ("yes") or an error and no authenticator ("error")
constructedAnyway(ok) == "yes"
constructed(ok) == IF ok THEN "yes" ELSE "error"

\* NewDaprSentryAuthenticatorWithLogger: one refreshJWKS, whose error is fatal
NewDaprSentryAuthenticator ==
    /\ built = "no"
    /\ \/ /\ \E e \in FetchErrors : built' = constructed(FALSE)
          /\ initialFetches' = Append(initialFetches, [ok |-> FALSE])
          /\ UNCHANGED <<jwks, lastRefresh, stored, newest>>
       \/ /\ built' = constructed(TRUE)
          /\ initialFetches' = Append(initialFetches, [ok |-> TRUE])
          /\ jwks' = storeJWKS(jwks, served)
          /\ lastRefresh' = clock
          /\ stored' = Pair(jwks', lastRefresh')
          /\ newest' = served
    /\ UNCHANGED <<sentryConfig, jwksMu, clock, served, call>>

\* Authenticate(ctx, token) up to the call of getSigningKey: jwt.ParseSigned
ParseSigned(c, t) ==
    /\ built = "yes"
    /\ call[c].pc = "idle"
    /\ call' = [call EXCEPT ![c] =
           IF t.form = "malformed"
           THEN [IdleCall EXCEPT !.pc = "done", !.token = t,
                    !.result = Failed(Wrapped(ErrInvalidToken, "failed to parse JWT"))]
           ELSE [IdleCall EXCEPT !.pc = "rlock", !.token = t]]
    /\ UNCHANGED <<sentryConfig, built, initialFetches, stored, newest, jwks, lastRefresh, jwksMu, clock, served>>

\* Authenticate called with any token of the model
SentryAuthenticate(c) == \E t \in SentryTokens : ParseSigned(c, t)

\* sync.RWMutex: RLock returns when no writer holds the lock
canRLockAlways(mu) == TRUE
canRLock(mu) == mu.writer = ""

\* sync.RWMutex: Lock returns when no writer and no reader holds the lock
canLockAlways(mu) == TRUE
canLock(mu) == mu.writer = "" /\ mu.readers = {}

\* a.jwksMu.RUnlock() by caller c
RUnlockNever(mu, c) == mu
RUnlock(mu, c) == [mu EXCEPT !.readers = @ \ {c}]

\* a.jwksMu.RLock()
RLock(c) ==
    /\ call[c].pc = "rlock"
    /\ canRLock(jwksMu)
    /\ jwksMu' = [jwksMu EXCEPT !.readers = @ \cup {c}]
    /\ call' = [call EXCEPT ![c].pc = "read"]
    /\ UNCHANGED <<sentryConfig, built, initialFetches, stored, newest, jwks, lastRefresh, clock, served>>

\* getSigningKey: the first read of a.jwks and a.lastRefresh, RUnlock, the
\* staleness test, and the lookup when the cache is fresh
ReadCache(c) ==
    /\ call[c].pc = "read"
    /\ call[c].cause = ""
    /\ jwksMu' = RUnlock(jwksMu, c)
    /\ call' = [call EXCEPT ![c] =
           IF cacheStale(lastRefresh, clock, sentryConfig.RefreshInterval)
           THEN [@ EXCEPT !.pc = "fetch", !.jwks = jwks, !.lastRefresh = lastRefresh,
                          !.cause = "stale"]
           ELSE firstLookup([@ EXCEPT !.lastRefresh = lastRefresh], jwks)]
    /\ UNCHANGED <<sentryConfig, built, initialFetches, stored, newest, jwks, lastRefresh, clock, served>>

\* getSigningKey: the read of a.jwks after the refresh of a stale cache,
\* RUnlock, and the lookup
RereadAfterStale(c) ==
    /\ call[c].pc = "read"
    /\ call[c].cause = "stale"
    /\ jwksMu' = RUnlock(jwksMu, c)
    /\ call' = [call EXCEPT ![c] = firstLookup(@, jwks)]
    /\ UNCHANGED <<sentryConfig, built, initialFetches, stored, newest, jwks, lastRefresh, clock, served>>

\* getSigningKey: the read of a.jwks after the refresh a miss caused,
\* RUnlock, and the second lookup
RereadAfterMiss(c) ==
    /\ call[c].pc = "read"
    /\ call[c].cause = "miss"
    /\ jwksMu' = RUnlock(jwksMu, c)
    /\ call' = [call EXCEPT ![c] = retryLookup(@, jwks)]
    /\ UNCHANGED <<sentryConfig, built, initialFetches, stored, newest, jwks, lastRefresh, clock, served>>

\* refreshJWKS up to a.jwksMu.Lock(): the request, the status, the body
Fetch(c) ==
    /\ call[c].pc = "fetch"
    /\ \/ /\ \E e \in FetchErrors :
                 call' = [call EXCEPT ![c] = afterFetchError(@, e)]
          /\ UNCHANGED newest
       \/ /\ call' = [call EXCEPT ![c].pc = "lock", ![c].fetched = served,
                                  ![c].fetches = Append(@, [cause |-> call[c].cause,
                                                            ok |-> TRUE])]
          /\ newest' = served
    /\ UNCHANGED <<sentryConfig, built, initialFetches, stored, jwks, lastRefresh, jwksMu, clock, served>>

\* a.jwksMu.Lock()
Lock(c) ==
    /\ call[c].pc = "lock"
    /\ canLock(jwksMu)
    /\ jwksMu' = [jwksMu EXCEPT !.writer = c]
    /\ call' = [call EXCEPT ![c].pc = "store"]
    /\ UNCHANGED <<sentryConfig, built, initialFetches, stored, newest, jwks, lastRefresh, clock, served>>

\* refreshJWKS: a.jwks = &jwks; a.lastRefresh = time.Now(); a.jwksMu.Unlock()
Store(c) ==
    /\ call[c].pc = "store"
    /\ jwks' = storeJWKS(jwks, call[c].fetched)
    /\ lastRefresh' = clock
    /\ stored' = Pair(jwks', lastRefresh')
    /\ jwksMu' = [jwksMu EXCEPT !.writer = ""]
    /\ call' = [call EXCEPT ![c].pc = "rlock"]
    /\ UNCHANGED <<sentryConfig, built, initialFetches, newest, clock, served>>

\* an Authenticate that keeps the identities it returned and answers a
\* token it has accepted before, for a call still at hand, from that result
ClaimsCached(c, cs) ==
    /\ call[c].pc = "verify"
    /\ call' = [call EXCEPT ![c].pc = "done", ![c].claims = cs, ![c].now = clock,
                   ![c].result =
                       IF \E d \in Callers \ {c} :
                              /\ call[d].pc = "done" /\ call[d].result.err = Nil
                              /\ call[d].token = call[c].token /\ call[d].claims = cs
                       THEN Accepted(SentryIdentity(cs))
                       ELSE verifyClaims(sentryConfig, call[c].token, cs,
                                         call[c].matchingKeys[1].Key, clock)]
    /\ UNCHANGED <<sentryConfig, built, initialFetches, stored, newest, jwks, lastRefresh, jwksMu, clock, served>>

\* Authenticate from parsedJWT.Claims(key, &claims) to its return, with the
\* first matching key; the payload is decoded here
Claims(c, cs) ==
    /\ call[c].pc = "verify"
    /\ call' = [call EXCEPT ![c].pc = "done", ![c].claims = cs, ![c].now = clock,
                   ![c].result = verifyClaims(sentryConfig, call[c].token, cs,
                                              call[c].matchingKeys[1].Key, clock)]
    /\ UNCHANGED <<sentryConfig, built, initialFetches, stored, newest, jwks, lastRefresh, jwksMu, clock, served>>

\* the token carries any payload of the model
Verify(c) == \E cs \in SentryClaims : Claims(c, cs)

\* the caller takes the result; the goroutine is free for another call
Return(c) ==
    /\ call[c].pc = "done"
    /\ call' = [call EXCEPT ![c] = IdleCall]
    /\ UNCHANGED <<sentryConfig, built, initialFetches, stored, newest, jwks, lastRefresh, jwksMu, clock, served>>

\* the wall clock advances
Tick ==
    /\ clock < MaxTime
    /\ clock' = clock + 1
    /\ UNCHANGED <<sentryConfig, built, initialFetches, stored, newest, jwks, lastRefresh, jwksMu, served, call>>

\* the control plane rotates its keys: the endpoint serves another set
Serve(ks) ==
    /\ ks # served
    /\ served' = ks
    /\ UNCHANGED <<sentryConfig, built, initialFetches, stored, newest, jwks, lastRefresh, jwksMu, clock, call>>

\* the endpoint may come to serve any key set of the model
Rotate == \E ks \in KeySets : Serve(ks)

\* a server in control-plane mode: the middleware idle, the authenticator
\* not yet constructed
InitSentry ==
    /\ InitWith({[Enabled |-> TRUE, Mode |-> ModeDaprSentry, SkipPaths |-> <<>>,
                  DaprSentry |-> [TokenHeader |-> Authorization]]}, {<<>>})
    /\ sentryConfig \in SentryConfigs
    /\ built = "no"
    /\ jwks = Nil
    /\ lastRefresh = ZeroTime
    /\ jwksMu = Unlocked
    /\ clock = ZeroTime + 1
    /\ served \in KeySets
    /\ call = [c \in Callers |-> IdleCall]
    /\ initialFetches = <<>>
    /\ stored = Pair(Nil, ZeroTime)
    /\ newest = Nil
    /\ Uncalled

SentryStep(c) ==
    \/ SentryAuthenticate(c)
    \/ RLock(c)
    \/ ReadCache(c)
    \/ RereadAfterStale(c)
    \/ RereadAfterMiss(c)
    \/ Fetch(c)
    \/ Lock(c)
    \/ Store(c)
    \/ Verify(c)
    \/ Return(c)

NextSentry ==
    /\ \/ NewDaprSentryAuthenticator
       \/ \E c \in OneCaller : SentryStep(c)
       \/ Tick
       \/ Rotate
    /\ UNCHANGED <<middlewareVars, callVars, healthVars>>

SpecSentry == InitSentry /\ [][NextSentry]_vars

(***************************************************************************)
(* Concurrent callers.  The two reads getSigningKey makes under the shared *)
(* lock and the two writes refreshJWKS makes under the exclusive lock are  *)
(* steps of their own, so that only the lock keeps them together.          *)
(***************************************************************************)
\* getSigningKey: jwks := a.jwks, under the shared lock
LoadKeys(c) ==
    /\ call[c].pc = "read"
    /\ call[c].cause = ""
    /\ call' = [call EXCEPT ![c].pc = "readtime", ![c].jwks = jwks]
    /\ UNCHANGED <<sentryConfig, built, initialFetches, stored, newest, jwks, lastRefresh,
                   jwksMu, clock, served>>

\* getSigningKey: lastRefresh := a.lastRefresh; a.jwksMu.RUnlock()
LoadTime(c) ==
    /\ call[c].pc = "readtime"
    /\ jwksMu' = RUnlock(jwksMu, c)
    /\ call' = [call EXCEPT ![c].pc = "since", ![c].lastRefresh = lastRefresh]
    /\ UNCHANGED <<sentryConfig, built, initialFetches, stored, newest, jwks, lastRefresh,
                   clock, served>>

\* getSigningKey: time.Since(lastRefresh) > a.config.RefreshInterval on the
\* local copy, with the clock as it is by then and no lock held, and the
\* lookup when the cache is fresh
CheckStale(c) ==
    /\ call[c].pc = "since"
    /\ call' = [call EXCEPT ![c] =
           IF cacheStale(@.lastRefresh, clock, sentryConfig.RefreshInterval)
           THEN [@ EXCEPT !.pc = "fetch", !.cause = "stale"]
           ELSE firstLookup(@, @.jwks)]
    /\ UNCHANGED <<sentryConfig, built, initialFetches, stored, newest, jwks, lastRefresh,
                   jwksMu, clock, served>>

\* refreshJWKS: a.jwks = &jwks, under the exclusive lock
StoreKeys(c) ==
    /\ call[c].pc = "store"
    /\ jwks' = storeJWKS(jwks, call[c].fetched)
    /\ call' = [call EXCEPT ![c].pc = "stamp"]
    /\ UNCHANGED <<sentryConfig, built, initialFetches, stored, newest, lastRefresh, jwksMu,
                   clock, served>>

\* refreshJWKS: a.lastRefresh = time.Now(); a.jwksMu.Unlock()
StoreTime(c) ==
    /\ call[c].pc = "stamp"
    /\ lastRefresh' = clock
    /\ stored' = Pair(jwks, lastRefresh')
    /\ jwksMu' = [jwksMu EXCEPT !.writer = ""]
    /\ call' = [call EXCEPT ![c].pc = "rlock"]
    /\ UNCHANGED <<sentryConfig, built, initialFetches, newest, jwks, clock, served>>

\* the tokens, payloads and key sets of the concurrent callers
ConcurrentTokens ==
    {[form |-> "jws", KeyID |-> "k1", signedBy |-> "K1"],
     [form |-> "jws", KeyID |-> "k2", signedBy |-> "K2"]}
ConcurrentClaims ==
    [Subject   : {SpiffeScheme \o Public \o <<"/", "n", "s", "/", "a", "p", "p">>},
     Audience  : {<<>>},
     Expiry    : {Nil, NumericDate(MaxTime - 1)},
     NotBefore : {Nil},
     IssuedAt  : {Nil},
     ID        : {"j1"},
     Use       : {""}]
ConcurrentKeySets ==
    {JSONWebKeySet(<<JSONWebKey("k1", "K1")>>),
     JSONWebKeySet(<<JSONWebKey("k2", "K2")>>)}

InitConcurrent ==
    /\ InitWith({[Enabled |-> TRUE, Mode |-> ModeDaprSentry, SkipPaths |-> <<>>,
                  DaprSentry |-> [TokenHeader |-> Authorization]]}, {<<>>})
    /\ sentryConfig = [TrustDomain |-> Public, Audience |-> "",
                       RefreshInterval |-> RefreshInterval]
    /\ built = "no"
    /\ jwks = Nil
    /\ lastRefresh = ZeroTime
    /\ jwksMu = Unlocked
    /\ clock = ZeroTime + 1
    /\ served \in ConcurrentKeySets
    /\ call = [c \in Callers |-> IdleCall]
    /\ initialFetches = <<>>
    /\ stored = Pair(Nil, ZeroTime)
    /\ newest = Nil
    /\ Uncalled

ConcurrentStep(c) ==
    \/ \E t \in ConcurrentTokens : ParseSigned(c, t)
    \/ RLock(c)
    \/ LoadKeys(c)
    \/ LoadTime(c)
    \/ CheckStale(c)
    \/ RereadAfterStale(c)
    \/ RereadAfterMiss(c)
    \/ Fetch(c)
    \/ Lock(c)
    \/ StoreKeys(c)
    \/ StoreTime(c)
    \/ \E cs \in ConcurrentClaims : Claims(c, cs)
    \/ Return(c)

NextConcurrent ==
    /\ \/ NewDaprSentryAuthenticator
       \/ \E c \in Callers : ConcurrentStep(c)
       \/ Tick
       \/ \E ks \in ConcurrentKeySets : Serve(ks)
    /\ UNCHANGED <<middlewareVars, callVars, healthVars>>

SpecConcurrent == InitConcurrent /\ [][NextConcurrent]_vars

\* the steps of a call that wait for nothing: reads and writes of memory
\* under a lock already held, and the verification of the token
InMemoryStep(c, claims) ==
    \/ LoadKeys(c)
    \/ LoadTime(c)
    \/ CheckStale(c)
    \/ RereadAfterStale(c)
    \/ RereadAfterMiss(c)
    \/ StoreKeys(c)
    \/ StoreTime(c)
    \/ \E cs \in claims : Claims(c, cs)

\* one token and one payload for the calls whose progress is examined
ProgressTokens == {[form |-> "jws", KeyID |-> "k1", signedBy |-> "K1"]}
ProgressClaims == {cs \in ConcurrentClaims : cs.Expiry = Nil}

\* A goroutine that can run does run; sync.RWMutex admits a waiting writer
\* before later readers and the waiting readers when the writer unlocks, so
\* an acquisition that is possible again and again happens.  Nothing is
\* assumed of the network: a fetch may stay in flight for ever.
LockFairness ==
    \A c \in Callers :
        /\ WF_vars(InMemoryStep(c, ProgressClaims) /\ UNCHANGED <<middlewareVars, callVars, healthVars>>)
        /\ SF_vars(RLock(c) /\ UNCHANGED <<middlewareVars, callVars, healthVars>>)
        /\ SF_vars(Lock(c) /\ UNCHANGED <<middlewareVars, callVars, healthVars>>)

\* two goroutines, one call each
NextTwoCalls ==
    /\ \/ NewDaprSentryAuthenticator
       \/ \E c \in Callers :
              \/ \E t \in ProgressTokens : ParseSigned(c, t)
              \/ RLock(c)
              \/ Lock(c)
              \/ Fetch(c)
              \/ InMemoryStep(c, ProgressClaims)
       \/ Tick
       \/ \E ks \in ConcurrentKeySets : Serve(ks)
    /\ UNCHANGED <<middlewareVars, callVars, healthVars>>

SpecTwoCalls == InitConcurrent /\ [][NextTwoCalls]_vars

SpecLocks == SpecTwoCalls /\ LockFairness

\* refreshJWKS sends its request with the context of the call through a
\* client with a timeout: a fetch ends, with the key set or with an error.
FetchFairness ==
    \A c \in Callers : WF_vars(Fetch(c) /\ UNCHANGED <<middlewareVars, callVars, healthVars>>)

SpecRefresh == SpecTwoCalls /\ LockFairness /\ FetchFairness

(***************************************************************************)
(* Vocabulary of the properties, stated from the specification's wording   *)
(* and independent of the operators above.                                 *)
(***************************************************************************)
Passed(r)   == pc[r] \in {"passed_skip", "passed_disabled", "passed_authenticated"}
Rejected(r) == pc[r] \in {"rejected_no_token", "rejected_invalid"}
Terminal(r) == Passed(r) \/ Rejected(r)
Entered(r)  == pc[r] \notin {"idle", "received"}

\* path x matches skip pattern p: equal, or p ends in '*' and x starts with
\* p without that last character
MatchesPattern(p, x) ==
    \/ x = p
    \/ /\ Len(p) >= 1
       /\ p[Len(p)] = "*"
       /\ Len(x) >= Len(p) - 1
       /\ \A i \in 1..(Len(p) - 1) : x[i] = p[i]

\* the request's path is exempt under the configuration
Exempt(r) ==
    \E i \in 1..Len(config.SkipPaths) : MatchesPattern(config.SkipPaths[i], req[r].path)

\* authentication is disabled by configuration
Disabled == config.Enabled = FALSE \/ config.Mode = "disabled"

\* authentication is required for request r
AuthRequired(r) == Entered(r) /\ ~Exempt(r) /\ ~Disabled

\* some Authenticate call of request r returned an Identity without error
SomeSuccess(r) ==
    \E i \in 1..Len(authLog[r]) : authLog[r][i].err = NoError /\ authLog[r][i].id \in Identity

\* the value of header `name` in request r, names compared without case
HeaderValues(r, name) ==
    {req[r].header[k] : k \in {h \in DOMAIN req[r].header : ToLower(h) = ToLower(name)}}
HeaderNonEmpty(r, name) == \E v \in HeaderValues(r, name) : v # <<>>

\* a custom token header is configured
CustomConfigured ==
    /\ config.DaprSentry.TokenHeader # <<>>
    /\ config.DaprSentry.TokenHeader # Authorization

\* the bodies http.Error writes for the two rejections
NoTokenBody      == "Unauthorized: no token provided\n"
InvalidTokenBody == "Unauthorized: invalid token\n"

(***************************************************************************)
(* C1                                                                      *)
(***************************************************************************)
\* C1: a request has at most one outcome and, once Handler has returned,
\* exactly one: next was called once and nothing was written, or a 401 was
\* written and next was never called; next is called if and only if the path
\* is exempt, or authentication is disabled, or an authenticator returned an
\* Identity without error for the extracted token.
C1_OneOutcome ==
    \A r \in RequestIds :
        /\ Len(nextLog[r]) <= 1
        /\ ~(Len(nextLog[r]) = 1 /\ written[r] # Nil)
        /\ written[r] # Nil => written[r].status = 401
        /\ ~Terminal(r) => Len(nextLog[r]) = 0 /\ written[r] = Nil
        /\ Terminal(r) => (Len(nextLog[r]) = 1 \/ written[r] # Nil)
        /\ Terminal(r) =>
             ( Len(nextLog[r]) = 1
               <=> \/ Exempt(r)
                   \/ Disabled
                   \/ \E i \in 1..Len(authLog[r]) :
                        /\ authLog[r][i].err = NoError
                        /\ authLog[r][i].id \in Identity
                        /\ authLog[r][i].token = extracted[r].token )

\* both outcomes have happened under one configuration's kind: a request
\* rejected after an authenticator failed
C1_Witness ==
    \E r \in RequestIds :
        /\ pc[r] = "rejected_invalid"
        /\ Len(authLog[r]) >= 1
        /\ written[r] # Nil
        /\ Len(nextLog[r]) = 0

(***************************************************************************)
(* C2                                                                      *)
(***************************************************************************)
\* C2: a request whose path matches a skip pattern is handed to next, with
\* no token extraction, no Authenticate call and nothing written, whatever
\* the configuration and the headers.
C2_SkipBypasses ==
    \A r \in RequestIds :
        (Entered(r) /\ Exempt(r)) =>
            /\ pc[r] = "passed_skip"
            /\ Len(nextLog[r]) = 1
            /\ authLog[r] = <<>>
            /\ extracted[r] = Nil
            /\ written[r] = Nil

\* an exempt request passed although authentication is enabled, an
\* authenticator is configured and the request carries no token at all
C2_Witness ==
    \E r \in RequestIds :
        /\ pc[r] = "passed_skip"
        /\ config.Enabled /\ config.Mode = ModeOIDC
        /\ Len(authenticators) >= 1
        /\ DOMAIN req[r].header = {}

(***************************************************************************)
(* C3                                                                      *)
(***************************************************************************)
\* C3: shouldSkip(x) is true if and only if some configured pattern p has
\* x = p, or p ends with '*' and x starts with p minus its trailing '*';
\* the handler takes the skip branch exactly in that case.
C3_ShouldSkipIff ==
    \A r \in RequestIds :
        /\ req[r] # Nil =>
             ( shouldSkip(config.SkipPaths, req[r].path)
               <=> \E i \in 1..Len(config.SkipPaths) :
                     MatchesPattern(config.SkipPaths[i], req[r].path) )
        /\ Entered(r) =>
             ( pc[r] = "passed_skip"
               <=> \E i \in 1..Len(config.SkipPaths) :
                     MatchesPattern(config.SkipPaths[i], req[r].path) )

\* '/api/*' lets '/api/' through by its wildcard
C3_Witness ==
    \E r \in RequestIds :
        /\ pc[r] = "passed_skip"
        /\ config.SkipPaths = << <<"/","a","p","i","/","*">> >>
        /\ req[r].path = <<"/","a","p","i","/">>

(***************************************************************************)
(* C4                                                                      *)
(***************************************************************************)
\* no header of request r yields a token: the custom header, where one is
\* configured, is absent or empty, and the Authorization header is absent,
\* empty, or a bearer scheme followed by nothing but at most one space
NoTokenInHeaders(r) ==
    /\ CustomConfigured => ~HeaderNonEmpty(r, config.DaprSentry.TokenHeader)
    /\ \A v \in HeaderValues(r, Authorization) :
         \/ v = <<>>
         \/ /\ Len(v) \in {7, 8}
            /\ ToLower(SubSeq(v, 1, 7)) = BearerPrefix
            /\ \A i \in 8..Len(v) : v[i] = " "

\* C4: when authentication is required and no token is found, the request
\* is rejected with 401 "Unauthorized: no token provided" in the handler's
\* first step and no Authenticate call is made for it.
C4_NoTokenRejected ==
    \A r \in RequestIds :
        (AuthRequired(r) /\ NoTokenInHeaders(r)) =>
            /\ pc[r] = "rejected_no_token"
            /\ written[r] # Nil
            /\ written[r].status = 401
            /\ written[r].body = NoTokenBody
            /\ authLog[r] = <<>>
            /\ nextLog[r] = <<>>

\* a request without any header rejected while an authenticator is configured
C4_Witness ==
    \E r \in RequestIds :
        /\ pc[r] = "rejected_no_token"
        /\ DOMAIN req[r].header = {}
        /\ Len(authenticators) >= 1

(***************************************************************************)
(* C5                                                                      *)
(***************************************************************************)
\* C5: the Authenticate calls of a request are made on authenticators
\* 1, 2, ... of the configured list in that order, each with the extracted
\* token; a call is made only after all earlier ones returned an error, so
\* nothing is called after a success; a rejection for an invalid token comes
\* only after the whole list failed; and the Identity handed to next is the
\* one the last (successful) call returned, whose authMethod is that
\* authenticator's.
C5_InOrderFirstWins ==
    \A r \in RequestIds :
        LET L == authLog[r] IN
        /\ Len(L) <= Len(authenticators)
        /\ \A i \in 1..Len(L) :
             /\ L[i].index = i
             /\ L[i].mode = authenticators[i].mode
             /\ L[i].token = extracted[r].token
             /\ i < Len(L) => L[i].err # NoError /\ L[i].id = Nil
        /\ pc[r] = "rejected_invalid" =>
             /\ Len(L) = Len(authenticators)
             /\ \A i \in 1..Len(L) : L[i].err # NoError
        /\ pc[r] = "passed_authenticated" =>
             /\ Len(L) >= 1
             /\ L[Len(L)].err = NoError
             /\ GetIdentity(nextLog[r][1].ctx) = L[Len(L)].id
             /\ GetIdentity(nextLog[r][1].ctx).AuthMethod = authenticators[Len(L)].mode

\* [A fails, B succeeds] with A and B of different modes
C5_Witness ==
    \E r \in RequestIds :
        /\ pc[r] = "passed_authenticated"
        /\ Len(authLog[r]) = 2
        /\ authLog[r][1].err # NoError
        /\ authLog[r][2].err = NoError
        /\ authenticators[1].mode = ModeOIDC
        /\ authenticators[2].mode = ModeSPIFFE
        /\ GetIdentity(nextLog[r][1].ctx).AuthMethod = ModeSPIFFE

(***************************************************************************)
(* C6                                                                      *)
(***************************************************************************)
\* C6: every request rejected after a non-empty token was extracted gets
\* one and the same response, status 401 with the body "Unauthorized:
\* invalid token", whatever authenticators are configured, whichever of them
\* failed and whatever errors they returned; no error text is in it.
C6_RejectionUniform ==
    \A r \in RequestIds :
        (Rejected(r) /\ extracted[r] # Nil /\ extracted[r].token # <<>>) =>
            /\ written[r] = [status      |-> 401,
                             contentType |-> "text/plain; charset=utf-8",
                             body        |-> InvalidTokenBody]
            /\ \A i \in 1..Len(authLog[r]) :
                 written[r].body # "Unauthorized: " \o authLog[r][i].err \o "\n"
            /\ \A q \in RequestIds :
                 (Rejected(q) /\ extracted[q] # Nil /\ extracted[q].token # <<>>)
                     => written[q] = written[r]

\* a rejection after two authenticators failed with different errors
C6_Witness ==
    \E r \in RequestIds :
        /\ pc[r] = "rejected_invalid"
        /\ Len(authLog[r]) = 2
        /\ authLog[r][1].err = ErrTokenExpired
        /\ authLog[r][2].err = ErrInvalidToken

(***************************************************************************)
(* C7                                                                      *)
(***************************************************************************)
\* C7: when authentication is required, a request that ends without an
\* Identity is answered 401 with one of two bodies: "no token provided"
\* exactly when the extracted token is empty, "invalid token" exactly when a
\* non-empty token was extracted and no authenticator returned an Identity,
\* the empty authenticator list included.
C7_TwoBodies ==
    \A r \in RequestIds :
        /\ written[r] # Nil =>
             /\ AuthRequired(r)
             /\ written[r].status = 401
             /\ written[r].body \in {NoTokenBody, InvalidTokenBody}
             /\ written[r].body = NoTokenBody <=> extracted[r].token = <<>>
             /\ written[r].body = InvalidTokenBody
                  <=> (extracted[r].token # <<>> /\ ~SomeSuccess(r))
        /\ (AuthRequired(r) /\ Terminal(r) /\ extracted[r].token = <<>>) =>
             (written[r] # Nil /\ written[r].body = NoTokenBody)
        /\ (AuthRequired(r) /\ Terminal(r) /\ extracted[r].token # <<>> /\ ~SomeSuccess(r)) =>
             (written[r] # Nil /\ written[r].body = InvalidTokenBody)

\* a token presented to a middleware without authenticators
C7_Witness ==
    \E r \in RequestIds :
        /\ pc[r] = "rejected_invalid"
        /\ authenticators = <<>>
        /\ extracted[r].token # <<>>
        /\ written[r].body = InvalidTokenBody

(***************************************************************************)
(* C8                                                                      *)
(***************************************************************************)
\* C8: after a successful authentication next is called once, with a
\* context from which GetIdentity returns the Identity the successful
\* Authenticate call returned and which keeps the request's other values,
\* and the middleware has written nothing.
C8_IdentityAttached ==
    \A r \in RequestIds :
        pc[r] = "passed_authenticated" =>
            /\ Len(nextLog[r]) = 1
            /\ \E i \in 1..Len(authLog[r]) :
                 /\ authLog[r][i].err = NoError
                 /\ \A j \in 1..Len(authLog[r]) : authLog[r][j].err = NoError => j = i
                 /\ GetIdentity(nextLog[r][1].ctx) = authLog[r][i].id
            /\ IsAuthenticated(nextLog[r][1].ctx)
            /\ \A k \in DOMAIN req[r].ctx : nextLog[r][1].ctx[k] = req[r].ctx[k]
            /\ written[r] = Nil

\* the first authenticator accepted a bearer token
C8_Witness ==
    \E r \in RequestIds :
        /\ pc[r] = "passed_authenticated"
        /\ Len(authLog[r]) = 1
        /\ extracted[r].header = TokenSource(Authorization, " (Bearer)")
        /\ GetIdentity(nextLog[r][1].ctx).Subject = "alice"

(***************************************************************************)
(* C9                                                                      *)
(***************************************************************************)
\* C9: with authentication disabled (enabled false, or mode disabled even
\* with enabled true) a non-exempt request is handed to next without token
\* extraction and without any Authenticate call, tokenless requests too.
C9_DisabledPasses ==
    \A r \in RequestIds :
        (Entered(r) /\ ~Exempt(r) /\ Disabled) =>
            /\ pc[r] = "passed_disabled"
            /\ Len(nextLog[r]) = 1
            /\ extracted[r] = Nil
            /\ authLog[r] = <<>>
            /\ written[r] = Nil

\* enabled is true, the mode is disabled, authenticators are configured and
\* the request carries no header
C9_Witness ==
    \E r \in RequestIds :
        /\ pc[r] = "passed_disabled"
        /\ config.Enabled /\ config.Mode = ModeDisabled
        /\ Len(authenticators) >= 1
        /\ DOMAIN req[r].header = {}

(***************************************************************************)
(* C10                                                                     *)
(***************************************************************************)
\* C10: with a custom token header configured (a name other than
\* "Authorization"), a present, non-empty value of that header is the
\* token, unchanged, also when an Authorization header is present; when it
\* is absent or empty the token comes from the Authorization header (its
\* value or an end piece of it, nothing if that header is empty too).  The
\* handler authenticates with the token so extracted.
C10_CustomHeaderFirst ==
    \A r \in RequestIds :
        req[r] # Nil =>
            LET ex == extractTokenWithSource(config, req[r].header) IN
            /\ (CustomConfigured /\ HeaderNonEmpty(r, config.DaprSentry.TokenHeader)) =>
                 /\ ex.token \in HeaderValues(r, config.DaprSentry.TokenHeader)
                 /\ ex.header.name = config.DaprSentry.TokenHeader
            /\ (CustomConfigured /\ ~HeaderNonEmpty(r, config.DaprSentry.TokenHeader)) =>
                 IF HeaderNonEmpty(r, Authorization)
                 THEN /\ ex.header.name = Authorization
                      /\ \E v \in HeaderValues(r, Authorization) : HasSuffix(v, ex.token)
                 ELSE ex = [token |-> <<>>, header |-> NoSource]
            /\ extracted[r] # Nil => extracted[r] = ex

\* both headers present: the custom value "Bearer cd" is the token, whole
C10_Witness ==
    \E r \in RequestIds :
        /\ pc[r] = "authenticating"
        /\ config.DaprSentry.TokenHeader = XToken
        /\ HeaderNonEmpty(r, Authorization)
        /\ extracted[r].token = <<"B","e","a","r","e","r"," ","c","d">>

(***************************************************************************)
(* C11                                                                     *)
(***************************************************************************)
\* the token an Authorization header value v stands for: v without a
\* leading "Bearer " (any case) and without one further space, else all of v
BearerToken(v) ==
    IF Len(v) >= 7 /\ ToLower(SubSeq(v, 1, 7)) = BearerPrefix
    THEN IF Len(v) >= 8 /\ v[8] = " " THEN SubSeq(v, 9, Len(v)) ELSE SubSeq(v, 8, Len(v))
    ELSE v

\* a header other than Authorization (names compared as HTTP compares them,
\* without case) is configured as token header and carries a value
OtherHeaderSupplies(r) ==
    /\ config.DaprSentry.TokenHeader # <<>>
    /\ ToLower(config.DaprSentry.TokenHeader) # ToLower(Authorization)
    /\ HeaderNonEmpty(r, config.DaprSentry.TokenHeader)

\* C11: when the token comes from the Authorization header, it is the
\* header's value with a case-insensitive "Bearer " prefix and at most one
\* further leading space removed, or the whole value when there is no such
\* prefix; the handler extracts exactly this token and hands exactly this
\* token to every authenticator it calls.
C11_BearerStripped ==
    \A r \in RequestIds :
        (extracted[r] # Nil /\ ~OtherHeaderSupplies(r)) =>
            \A v \in HeaderValues(r, Authorization) :
                /\ extracted[r].token = BearerToken(v)
                /\ \A i \in 1..Len(authLog[r]) : authLog[r][i].token = BearerToken(v)

\* the same statement, leaving out the configurations whose token header is
\* "Authorization" in another case: what the code does do
C11_BearerStrippedExactName ==
    \A r \in RequestIds :
        (extracted[r] # Nil /\ ~CustomConfigured) =>
            \A v \in HeaderValues(r, Authorization) :
                /\ extracted[r].token = BearerToken(v)
                /\ \A i \in 1..Len(authLog[r]) : authLog[r][i].token = BearerToken(v)

(***************************************************************************)
(* C12                                                                     *)
(***************************************************************************)
\* C12: in the oidc, spiffe and hybrid modes the token is taken from the
\* Authorization header (bearer or raw form), whatever token header is
\* configured for the control-plane strategy; the custom header is a token
\* location only in dapr-sentry mode.
C12_CustomHeaderOnlyControlPlane ==
    \A r \in RequestIds :
        (extracted[r] # Nil /\ config.Mode \in {"oidc", "spiffe", "hybrid"}) =>
            /\ extracted[r].token # <<>> => extracted[r].header.name = Authorization
            /\ \A v \in HeaderValues(r, Authorization) : extracted[r].token = BearerToken(v)
            /\ HeaderValues(r, Authorization) = {} => extracted[r].token = <<>>


(***************************************************************************)
(* Vocabulary of the control-plane authenticator's properties.             *)
(***************************************************************************)
\* the Authenticate call of caller c has returned
Returned(c) == call[c].pc = "done"

\* the call of c got as far as decoding the token's payload
Decoded(c) == Returned(c) /\ call[c].claims # Nil

\* the keys a key set holds under a key ID; with no key ID, all its keys
KeysFor(jw, kid) ==
    {jw.Keys[i].Key : i \in {j \in 1..Len(jw.Keys) : kid = "" \/ jw.Keys[j].KeyID = kid}}

\* the key set the call of c last read from the cache holds exactly one key
\* for the token's key ID: the token is signed by it, or by another key
SignedByCachedKey(c) ==
    /\ call[c].token.form = "jws"
    /\ call[c].jwks # Nil
    /\ KeysFor(call[c].jwks, call[c].token.KeyID) = {call[c].token.signedBy}
SignedByOtherKey(c) ==
    /\ call[c].token.form = "jws"
    /\ call[c].jwks # Nil
    /\ \E k \in KeysFor(call[c].jwks, call[c].token.KeyID) :
           /\ KeysFor(call[c].jwks, call[c].token.KeyID) = {k}
           /\ k # call[c].token.signedBy

\* the validity conditions of a payload cs at time t under configuration cfg
ExpiryPast(cs, t) == cs.Expiry # Nil /\ cs.Expiry.unix < t
NotBeforeFuture(cs, t) == cs.NotBefore # Nil /\ cs.NotBefore.unix > t
AudienceSatisfied(cfg, cs) ==
    cfg.Audience = "" \/ \E i \in 1..Len(cs.Audience) : cs.Audience[i] = cfg.Audience
\* spiffe://<domain>/<path...> with <domain> the trust domain td
SpiffeURIIn(sub, td) ==
    LET prefix == SpiffeScheme \o td \o <<Slash>>
    IN Len(sub) > Len(prefix) /\ SubSeq(sub, 1, Len(prefix)) = prefix

\* the call of c failed with an error that wraps the sentinel kind
FailedWith(c, kind) ==
    /\ Returned(c)
    /\ call[c].result.identity = Nil
    /\ call[c].result.err # Nil
    /\ call[c].result.err.kind = kind

\* C13: a token signed by the one key the cache holds for its key ID, not
\* expired, not before its notBefore, satisfying the audience rule, with a
\* SPIFFE URI of the trust domain as subject, is authenticated as an
\* Identity with authMethod dapr-sentry, the token's subject and the token's
\* audience; a token signed by another key than the one the cache holds for
\* its key ID fails with InvalidToken.
C13_ValidTokenIdentity ==
    \A c \in Callers :
        /\ (Returned(c) /\ SignedByCachedKey(c)) =>
               /\ Decoded(c)
               /\ (/\ ~ExpiryPast(call[c].claims, call[c].now)
                   /\ ~NotBeforeFuture(call[c].claims, call[c].now)
                   /\ AudienceSatisfied(sentryConfig, call[c].claims)
                   /\ SpiffeURIIn(call[c].claims.Subject, sentryConfig.TrustDomain)) =>
                      /\ call[c].result.err = Nil
                      /\ call[c].result.identity # Nil
                      /\ call[c].result.identity.AuthMethod = "dapr-sentry"
                      /\ call[c].result.identity.Subject = call[c].claims.Subject
                      /\ call[c].result.identity.Audience = call[c].claims.Audience
        /\ (Returned(c) /\ SignedByOtherKey(c)) => FailedWith(c, ErrInvalidToken)

\* a valid token was authenticated, with an audience to carry over
C13_Witness ==
    \E c \in Callers :
        /\ Returned(c)
        /\ SignedByCachedKey(c)
        /\ call[c].result.identity # Nil
        /\ call[c].result.identity.Audience = <<"other", "public">>
        /\ call[c].claims.Expiry # Nil
        /\ sentryConfig.Audience = "public"


\* the key getSigningKey returned to the call of c
ResolvedKey(c) == call[c].matchingKeys[1].Key

\* the call of c decoded the payload and the signature verified under the
\* key resolved for the token's key ID
SignatureValid(c) == Decoded(c) /\ call[c].token.signedBy = ResolvedKey(c)

\* the signature verified and the verification time is within the token's
\* validity period
InValidityPeriod(c) ==
    /\ SignatureValid(c)
    /\ ~ExpiryPast(call[c].claims, call[c].now)
    /\ ~NotBeforeFuture(call[c].claims, call[c].now)

\* the call of c failed with the sentinel kind and the message detail
FailedAs(c, kind, detail) ==
    /\ call[c].result.identity = Nil
    /\ call[c].result.err # Nil
    /\ call[c].result.err.kind = kind
    /\ call[c].result.err.detail = detail

\* the call of c ended without a key for the token's key ID
KeyUnresolved(c) == call[c].matchingKeys = <<>>

\* the outcome the first failing check gives, the checks taken in order
FirstFailure(c) ==
    LET cl == call[c]
    IN  IF cl.token.form = "malformed"
        THEN FailedAs(c, ErrInvalidToken, "failed to parse JWT") /\ cl.lookups = <<>>
        ELSE IF KeyUnresolved(c)
        THEN FailedWith(c, ErrInvalidToken) /\ cl.claims = Nil
        ELSE IF cl.token.signedBy # ResolvedKey(c)
        THEN FailedAs(c, ErrInvalidToken, "failed to verify JWT signature")
        ELSE IF ExpiryPast(cl.claims, cl.now)
        THEN FailedAs(c, ErrTokenExpired, "")
        ELSE IF NotBeforeFuture(cl.claims, cl.now)
        THEN FailedAs(c, ErrInvalidToken, "token not yet valid")
        ELSE IF ~AudienceSatisfied(sentryConfig, cl.claims)
        THEN FailedAs(c, ErrInvalidAudience, "expected audience")
        ELSE IF cl.claims.Subject = <<>>
        THEN FailedAs(c, ErrInvalidToken, "missing subject claim")
        ELSE \/ FailedAs(c, ErrInvalidToken, "invalid trust domain in subject")
             \/ cl.result.err = Nil

\* the expected audience is among the token's audiences
AudienceListed(cfg, cs) == \E i \in 1..Len(cs.Audience) : cs.Audience[i] = cfg.Audience

\* C14 as stated: every token whose expiry is in the past at verification
\* time fails with TokenExpired, never with InvalidToken.
C14_ExpiredAlwaysTokenExpired ==
    \A c \in Callers :
        (Decoded(c) /\ ExpiryPast(call[c].claims, call[c].now)) =>
            FailedWith(c, ErrTokenExpired)

\* C14: every token whose signature verifies under the key resolved for its
\* key ID and whose expiry is in the past at verification time fails with
\* TokenExpired, never with InvalidToken.
C14_ExpiredAfterSignature ==
    \A c \in Callers :
        (SignatureValid(c) /\ ExpiryPast(call[c].claims, call[c].now)) =>
            /\ FailedWith(c, ErrTokenExpired)
            /\ ~FailedWith(c, ErrInvalidToken)

\* a correctly signed, expired token that would also fail later checks
C14_Witness ==
    \E c \in Callers :
        /\ SignatureValid(c)
        /\ ExpiryPast(call[c].claims, call[c].now)
        /\ call[c].claims.Subject = <<>>
        /\ FailedWith(c, ErrTokenExpired)

\* C15 as stated: every token whose notBefore is in the future at
\* verification time fails with InvalidToken, 'token not yet valid'.
C15_EarlyAlwaysNotYetValid ==
    \A c \in Callers :
        (Decoded(c) /\ NotBeforeFuture(call[c].claims, call[c].now)) =>
            /\ FailedWith(c, ErrInvalidToken)
            /\ call[c].result.err.detail = "token not yet valid"

\* C15: every correctly signed, unexpired token whose notBefore is in the
\* future at verification time fails with InvalidToken, 'token not yet valid'.
C15_NotYetValid ==
    \A c \in Callers :
        (/\ SignatureValid(c)
         /\ ~ExpiryPast(call[c].claims, call[c].now)
         /\ NotBeforeFuture(call[c].claims, call[c].now)) =>
            /\ FailedWith(c, ErrInvalidToken)
            /\ call[c].result.err.detail = "token not yet valid"

\* a correctly signed token used before its notBefore was rejected
C15_Witness ==
    \E c \in Callers :
        /\ SignatureValid(c)
        /\ NotBeforeFuture(call[c].claims, call[c].now)
        /\ call[c].claims.Expiry # Nil
        /\ FailedWith(c, ErrInvalidToken)
        /\ call[c].result.err.detail = "token not yet valid"

\* C16 as stated: with a non-empty expected audience every token whose
\* audience list lacks it fails with InvalidAudience; with an empty expected
\* audience no token fails with InvalidAudience.
C16_AudienceAlwaysEnforced ==
    \A c \in Callers :
        Decoded(c) =>
            /\ (sentryConfig.Audience # "" /\ ~AudienceListed(sentryConfig, call[c].claims))
                   => FailedWith(c, ErrInvalidAudience)
            /\ sentryConfig.Audience = "" => ~FailedWith(c, ErrInvalidAudience)

\* C16: the audience is enforced only when an expected audience is
\* configured: with a non-empty expected audience a correctly signed token
\* within its validity period whose audience list lacks it fails with
\* InvalidAudience, and no other call does; with an empty expected audience no
\* call fails with InvalidAudience, and a correctly signed token within its
\* validity period with a SPIFFE subject of the trust domain is accepted
\* whatever its audience list.
C16_AudienceWhenConfigured ==
    \A c \in Callers :
        Returned(c) =>
            /\ (/\ sentryConfig.Audience # ""
                /\ InValidityPeriod(c)
                /\ ~AudienceListed(sentryConfig, call[c].claims))
                   => FailedWith(c, ErrInvalidAudience)
            /\ FailedWith(c, ErrInvalidAudience) =>
                   /\ sentryConfig.Audience # ""
                   /\ InValidityPeriod(c)
                   /\ ~AudienceListed(sentryConfig, call[c].claims)
            /\ (/\ sentryConfig.Audience = ""
                /\ InValidityPeriod(c)
                /\ SpiffeURIIn(call[c].claims.Subject, sentryConfig.TrustDomain))
                   => call[c].result.identity # Nil

\* with no expected audience, a token with an empty audience list was
\* accepted
C16_Witness ==
    \E c \in Callers :
        /\ sentryConfig.Audience = ""
        /\ InValidityPeriod(c)
        /\ call[c].claims.Audience = <<>>
        /\ call[c].result.identity # Nil


\* the call of c passed every check that precedes the subject checks
ReachedSubject(c) ==
    /\ InValidityPeriod(c)
    /\ AudienceSatisfied(sentryConfig, call[c].claims)

\* spiffe://<domain> or spiffe://<domain>/ with no path, <domain> being td
PathlessIn(sub, td) ==
    sub = SpiffeScheme \o td \/ sub = SpiffeScheme \o td \o <<Slash>>

\* C17: of the tokens that reach the subject checks, exactly those whose
\* subject is spiffe://<domain>/<path...> with <domain> equal to the trust
\* domain are accepted; an empty subject fails with InvalidToken 'missing
\* subject' and every other subject with InvalidToken 'invalid trust domain'.
C17_SubjectRule ==
    \A c \in Callers :
        ReachedSubject(c) =>
            /\ call[c].result.identity # Nil
                   <=> SpiffeURIIn(call[c].claims.Subject, sentryConfig.TrustDomain)
            /\ call[c].claims.Subject = <<>> =>
                   /\ FailedWith(c, ErrInvalidToken)
                   /\ call[c].result.err.detail = "missing subject claim"
            /\ (/\ call[c].claims.Subject # <<>>
                /\ ~SpiffeURIIn(call[c].claims.Subject, sentryConfig.TrustDomain)) =>
                   /\ FailedWith(c, ErrInvalidToken)
                   /\ call[c].result.err.detail = "invalid trust domain in subject"

\* the same rule for the subjects other than the trust domain without a path
C17_SubjectRuleWithPath ==
    \A c \in Callers :
        (/\ ReachedSubject(c)
         /\ ~PathlessIn(call[c].claims.Subject, sentryConfig.TrustDomain)) =>
            /\ call[c].result.identity # Nil
                   <=> SpiffeURIIn(call[c].claims.Subject, sentryConfig.TrustDomain)
            /\ call[c].claims.Subject = <<>> =>
                   /\ FailedWith(c, ErrInvalidToken)
                   /\ call[c].result.err.detail = "missing subject claim"
            /\ (/\ call[c].claims.Subject # <<>>
                /\ ~SpiffeURIIn(call[c].claims.Subject, sentryConfig.TrustDomain)) =>
                   /\ FailedWith(c, ErrInvalidToken)
                   /\ call[c].result.err.detail = "invalid trust domain in subject"


\* the first lookup of the call of c found no key for the token's key ID
Missed(c) == Len(call[c].lookups) >= 1 /\ Len(call[c].lookups[1]) = 0

\* the refresh attempts the call of c made for the given cause
FetchesFor(c, cause) ==
    {i \in 1..Len(call[c].fetches) : call[c].fetches[i].cause = cause}

\* the refresh the miss caused succeeded, or failed
MissRefreshed(c) ==
    \E i \in FetchesFor(c, "miss") : call[c].fetches[i].ok
MissRefreshFailed(c) ==
    \E i \in FetchesFor(c, "miss") : ~call[c].fetches[i].ok

\* C18: a call whose lookup finds no key for the token's key ID makes
\* exactly one refresh attempt for that miss, within the call and before it
\* returns; after the refresh the lookup is made once more, and the call
\* fails with InvalidToken if there is still no match (or if the refresh
\* failed).  No refresh is made for a miss that did not happen.
C18_OneRefreshOnMiss ==
    \A c \in Callers :
        /\ Cardinality(FetchesFor(c, "miss")) <= 1
        /\ FetchesFor(c, "miss") # {} => Missed(c)
        /\ Len(call[c].lookups) <= 2
        /\ Len(call[c].lookups) = 2 => (Missed(c) /\ MissRefreshed(c))
        /\ (Returned(c) /\ Missed(c)) =>
               /\ Cardinality(FetchesFor(c, "miss")) = 1
               /\ MissRefreshed(c) => Len(call[c].lookups) = 2
               /\ MissRefreshFailed(c) => FailedWith(c, ErrInvalidToken)
               /\ (MissRefreshed(c) /\ Len(call[c].lookups[2]) = 0) =>
                      /\ FailedWith(c, ErrInvalidToken)
                      /\ call[c].result.err.detail = "key not found in JWKS"
               /\ (MissRefreshed(c) /\ Len(call[c].lookups[2]) # 0) => Decoded(c)

\* a call missed, refreshed once, looked up again and failed
C18_Witness ==
    \E c \in Callers :
        /\ Returned(c)
        /\ Missed(c)
        /\ MissRefreshed(c)
        /\ Len(call[c].lookups) = 2
        /\ call[c].jwks.Keys # <<>>
        /\ FailedWith(c, ErrInvalidToken)

\* the call of c found the cache stale and its refresh failed; it made no
\* other refresh
StaleRefreshFailed(c) ==
    /\ Len(call[c].fetches) = 1
    /\ call[c].fetches[1].cause = "stale"
    /\ ~call[c].fetches[1].ok

\* C19: a call that reads a cache older than the refresh interval attempts
\* a refresh before any key lookup; when that refresh fails the call goes on
\* to look the key up in the keys cached before, and a valid token signed by
\* such a key is authenticated.
C19_StaleRefreshFirst ==
    /\ [][\A c \in Callers :
              (/\ call[c].pc = "read"
               /\ call[c].cause = ""
               /\ call'[c].pc # "read"
               /\ clock - lastRefresh > sentryConfig.RefreshInterval) =>
                  /\ call'[c].pc = "fetch"
                  /\ call'[c].lookups = <<>>
                  /\ jwks' = jwks]_vars
    /\ [](\A c \in Callers :
              /\ FetchesFor(c, "stale") # {} =>
                     /\ call[c].fetches[1].cause = "stale"
                     /\ Cardinality(FetchesFor(c, "stale")) = 1
              /\ (call[c].pc = "fetch" /\ call[c].cause = "stale") =>
                     call[c].lookups = <<>>
              /\ (Returned(c) /\ StaleRefreshFailed(c)) =>
                     /\ call[c].jwks = jwks
                     /\ Len(call[c].lookups) = 1
                     /\ call[c].lookups[1] = matchingKeys(jwks, call[c].token.KeyID)
                     /\ (/\ SignedByCachedKey(c)
                         /\ ~ExpiryPast(call[c].claims, call[c].now)
                         /\ ~NotBeforeFuture(call[c].claims, call[c].now)
                         /\ AudienceSatisfied(sentryConfig, call[c].claims)
                         /\ SpiffeURIIn(call[c].claims.Subject, sentryConfig.TrustDomain))
                            => call[c].result.identity # Nil)

\* a token was authenticated with the cached key after the refresh of the
\* stale cache had failed
C19_Witness ==
    \E c \in Callers :
        /\ Returned(c)
        /\ StaleRefreshFailed(c)
        /\ clock - call[c].lastRefresh > sentryConfig.RefreshInterval
        /\ call[c].result.identity # Nil

\* C20: the cached key set and lastRefresh change only when a fetch that
\* succeeded is stored: the key set becomes exactly the fetched one and
\* lastRefresh the time of the store; a fetch that fails (request error,
\* status other than 200, unreadable or unparsable body) changes neither and
\* is never followed by a store.
C20_RefreshFrame ==
    /\ [][/\ (jwks' # jwks \/ lastRefresh' # lastRefresh) =>
                 /\ lastRefresh' = clock
                 /\ \/ \E c \in Callers :
                           /\ call[c].pc = "store"
                           /\ call'[c].pc # "store"
                           /\ jwks' = call[c].fetched
                           /\ call[c].fetches[Len(call[c].fetches)].ok
                    \/ built = "no" /\ built' = "yes" /\ jwks' = served
          /\ \A c \in Callers :
                 (call[c].pc = "store" /\ call'[c].pc # "store") =>
                     (jwks' = call[c].fetched /\ lastRefresh' = clock)
          /\ \A c \in Callers :
                 (/\ Len(call'[c].fetches) = Len(call[c].fetches) + 1
                  /\ ~call'[c].fetches[Len(call'[c].fetches)].ok) =>
                     /\ jwks' = jwks
                     /\ lastRefresh' = lastRefresh
                     /\ call'[c].pc \notin {"lock", "store"}
          /\ (built = "no" /\ built' = "error") =>
                 (jwks' = jwks /\ lastRefresh' = lastRefresh)]_vars
    /\ [](\A c \in Callers :
              call[c].pc \in {"lock", "store"} =>
                  /\ call[c].fetched \in KeySets
                  /\ call[c].fetches[Len(call[c].fetches)].ok)

\* a refresh has just replaced a cached key set by one that lacks a key of
\* the old set, and moved lastRefresh forward
C20_Witness ==
    \E c \in Callers :
        /\ call[c].pc = "rlock"
        /\ call[c].fetches # <<>>
        /\ call[c].jwks # Nil
        /\ jwks = call[c].fetched
        /\ KeysFor(call[c].jwks, "") # {}
        /\ KeysFor(call[c].jwks, "") \cap KeysFor(jwks, "") = {}
        /\ jwks.Keys # <<>>
        /\ lastRefresh = clock
        /\ lastRefresh > call[c].lastRefresh


\* C21: the constructor makes exactly one refreshJWKS call; when it fails
\* the constructor returns an error and no authenticator, the cache stays
\* empty and no Authenticate call ever runs; every Authenticate call runs on
\* an authenticator whose single initial fetch succeeded.
C21_OneInitialFetch ==
    /\ built = "no" => initialFetches = <<>>
    /\ built # "no" => Len(initialFetches) = 1
    /\ built = "yes" => initialFetches[1].ok
    /\ built = "error" =>
           /\ ~initialFetches[1].ok
           /\ jwks = Nil
           /\ lastRefresh = ZeroTime
    /\ \A c \in Callers :
           call[c].pc # "idle" =>
               /\ built = "yes"
               /\ initialFetches = <<[ok |-> TRUE]>>

\* the initial fetch failed: the constructor returned an error
C21_Witness ==
    /\ built = "error"
    /\ initialFetches = <<[ok |-> FALSE]>>
    /\ \A c \in Callers : call[c].pc = "idle"

(***************************************************************************)
(* C22.  A token with no key ID against a cache of several keys: whether   *)
(* it passes the signature check when signed by any key of the cached set. *)
(***************************************************************************)
\* the call of c failed because the signature did not verify
SignatureRejected(c) ==
    /\ FailedWith(c, ErrInvalidToken)
    /\ call[c].result.err.detail = "failed to verify JWT signature"

\* the token of c has no key ID and the key set its call last read holds
\* several keys
NoKeyIDSeveralKeys(c) ==
    /\ Decoded(c)
    /\ call[c].token.KeyID = ""
    /\ Len(call[c].jwks.Keys) > 1

\* C22: a token without key ID, verified against a cache of several keys, is
\* accepted on signature grounds when it was signed by any key of the cached
\* set.
C22_AnyCachedKey ==
    \A c \in Callers :
        (/\ NoKeyIDSeveralKeys(c)
         /\ call[c].token.signedBy \in KeysFor(call[c].jwks, "")) =>
            ~SignatureRejected(c)

\* what holds instead: such a token passes the signature check exactly when
\* it was signed by the first key of the cached set
C22_FirstCachedKeyOnly ==
    \A c \in Callers :
        NoKeyIDSeveralKeys(c) =>
            (SignatureRejected(c) <=> call[c].token.signedBy # call[c].jwks.Keys[1].Key)

(***************************************************************************)
(* C23.  Under every interleaving of concurrent Authenticate calls and     *)
(* refreshes the cache is written only by a refresh that holds the         *)
(* exclusive lock and read only under the shared lock, and the pair        *)
(* (key set, lastRefresh) a reader takes from the cache is a pair that one *)
(* completed refresh stored as a whole.                                    *)
(***************************************************************************)
\* c is between RLock and RUnlock
Reading(c) == call[c].pc \in {"read", "readtime"}
\* c is between Lock and Unlock
Writing(c) == call[c].pc \in {"store", "stamp"}

LockDiscipline ==
    /\ \A c \in Callers : Reading(c) <=> c \in jwksMu.readers
    /\ \A c \in Callers : Writing(c) <=> jwksMu.writer = c
    /\ jwksMu.readers # {} => jwksMu.writer = ""
    /\ jwksMu.readers # {} => Pair(jwks, lastRefresh) = stored

WrittenUnderLock ==
    (jwks' # jwks \/ lastRefresh' # lastRefresh)
        => \/ built = "no"
           \/ \E c \in Callers : jwksMu.writer = c /\ Writing(c)

ReadWhole ==
    \A c \in Callers :
        (call[c].pc = "readtime" /\ call'[c].pc # "readtime")
            => Pair(call'[c].jwks, call'[c].lastRefresh) = stored

C23_WholePairs ==
    /\ []LockDiscipline
    /\ [][WrittenUnderLock]_vars
    /\ [][ReadWhole]_vars

\* a reader is between its two reads while another caller waits to store
\* a different key set
C23_Witness ==
    /\ call["c1"].pc = "readtime"
    /\ call["c2"].pc = "lock"
    /\ call["c2"].fetched # jwks

(***************************************************************************)
(* C24.  Refreshes are not coordinated: two concurrent requests that both  *)
(* find the cache stale each fetch the key set themselves, neither keeps   *)
(* the other from finishing, and when no refresh is storing, the cache     *)
(* holds the key set fetched by the refresh that stored last.              *)
(***************************************************************************)
\* c found the cache stale and is past the refresh this caused
RefreshedStale(c) ==
    call[c].cause = "stale" /\ call[c].pc \notin {"idle", "readtime", "fetch"}

OwnRefresh ==
    \A c \in Callers : RefreshedStale(c) => Cardinality(FetchesFor(c, "stale")) = 1

\* the refresh that completes leaves its own key set in the cache
LastWriterStored ==
    \A c \in Callers :
        (call[c].pc = "stamp" /\ call'[c].pc # "stamp")
            => /\ jwks' = call[c].fetched
               /\ stored' = Pair(call[c].fetched, clock)

CacheIsLastStored ==
    (\A c \in Callers : ~Writing(c)) => Pair(jwks, lastRefresh) = stored

BothComplete ==
    \A c \in Callers : (call[c].pc # "idle") ~> (call[c].pc = "done")

C24_UncoordinatedRefresh ==
    /\ [](OwnRefresh /\ CacheIsLastStored)
    /\ [][LastWriterStored]_vars
    /\ BothComplete

\* both callers found the cache stale and both fetches are in flight
C24_Witness ==
    \A c \in Callers : call[c].pc = "fetch" /\ call[c].cause = "stale"

\* both refreshes fetched, different key sets, and one of them is storing
C24_WitnessRace ==
    /\ call["c1"].pc = "stamp" /\ call["c1"].cause = "stale"
    /\ call["c2"].pc = "lock" /\ call["c2"].cause = "stale"
    /\ call["c1"].fetched # call["c2"].fetched

(***************************************************************************)
(* C25.  No request holds the JWKS lock, shared or exclusive, while its    *)
(* fetch of the key set is in flight; a fetch that never ends keeps no     *)
(* other request from reading the cache; every lock taken is released.     *)
(***************************************************************************)
\* the request of refreshJWKS has been sent and has not returned
FetchInFlight(c) == call[c].pc = "fetch"

NoLockDuringFetch ==
    \A c \in Callers :
        FetchInFlight(c) => c \notin jwksMu.readers /\ jwksMu.writer # c

FetchLeavesCacheReadable ==
    \A c, d \in Callers :
        (FetchInFlight(c) /\ call[d].pc = "rlock") => canRLock(jwksMu)

ReaderGetsIn ==
    \A d \in Callers : (call[d].pc = "rlock") ~> (call[d].pc # "rlock")

LockReleased ==
    \A c \in Callers :
        /\ (c \in jwksMu.readers) ~> (c \notin jwksMu.readers)
        /\ (jwksMu.writer = c) ~> (jwksMu.writer # c)

C25_NoLockAcrossFetch ==
    /\ [](NoLockDuringFetch /\ FetchLeavesCacheReadable)
    /\ ReaderGetsIn
    /\ LockReleased

\* one request reads the cache while the fetch of the other is in flight
C25_Witness ==
    /\ FetchInFlight("c1")
    /\ call["c2"].pc = "readtime"
    /\ "c2" \in jwksMu.readers

(***************************************************************************)
(* C26.  Two calls of Authenticate with the same valid token that read the *)
(* same cached key set return identities equal in every field, and what a  *)
(* call returns follows from its own token, the key it resolved and the    *)
(* time of its own verification: the later call takes nothing from the     *)
(* result of the earlier one.                                              *)
(***************************************************************************)
\* both calls returned, for the same token with the same payload, and the
\* key set each last read from the cache is the same
SameTokenSameCache(c, d) ==
    /\ Returned(c) /\ Returned(d)
    /\ call[c].token = call[d].token
    /\ call[c].claims = call[d].claims
    /\ call[c].jwks = call[d].jwks

\* identity id carries the fields of payload cs and nothing else: subject,
\* audience, the method, and the entries jti, use, iat, exp that cs holds
CarriesPayload(id, cs) ==
    /\ id.Subject = cs.Subject
    /\ id.Audience = cs.Audience
    /\ id.AuthMethod = "dapr-sentry"
    /\ ("jti" \in DOMAIN id.Claims) <=> cs.ID # ""
    /\ ("use" \in DOMAIN id.Claims) <=> cs.Use # ""
    /\ ("iat" \in DOMAIN id.Claims) <=> cs.IssuedAt # Nil
    /\ ("exp" \in DOMAIN id.Claims) <=> cs.Expiry # Nil
    /\ DOMAIN id.Claims \subseteq {"jti", "use", "iat", "exp"}
    /\ cs.ID # "" => id.Claims["jti"] = [str |-> cs.ID]
    /\ cs.Use # "" => id.Claims["use"] = [str |-> cs.Use]
    /\ cs.IssuedAt # Nil => id.Claims["iat"] = [int |-> cs.IssuedAt.unix]
    /\ cs.Expiry # Nil => id.Claims["exp"] = [int |-> cs.Expiry.unix]

\* what the call of c returned is what its own token, payload, resolved key
\* and verification time give, whatever other calls returned
OwnVerdict(c) ==
    /\ FirstFailure(c)
    /\ (Decoded(c) /\ (~SignatureValid(c) \/ ExpiryPast(call[c].claims, call[c].now)
                       \/ NotBeforeFuture(call[c].claims, call[c].now)))
           => call[c].result.err # Nil
    /\ call[c].result.err = Nil =>
           /\ InValidityPeriod(c)
           /\ CarriesPayload(call[c].result.identity, call[c].claims)

\* C26: the same valid token against the same cache gives equal identities,
\* and every result is the call's own verdict
C26_Idempotent ==
    /\ \A c \in Callers : Returned(c) => OwnVerdict(c)
    /\ \A c, d \in Callers :
        (/\ SameTokenSameCache(c, d)
         /\ call[c].result.err = Nil
         /\ InValidityPeriod(d))
            => /\ call[d].result.err = Nil
               /\ call[d].result.identity.Subject = call[c].result.identity.Subject
               /\ call[d].result.identity.Audience = call[c].result.identity.Audience
               /\ call[d].result.identity.AuthMethod = call[c].result.identity.AuthMethod
               /\ call[d].result.identity.Claims = call[c].result.identity.Claims
               /\ call[d].result = call[c].result

\* the same token was accepted twice, at different times, and the later
\* call refreshed the cache in between
C26_Witness ==
    /\ SameTokenSameCache("c1", "c2")
    /\ call["c1"].result.err = Nil
    /\ call["c2"].result.err = Nil
    /\ call["c1"].claims.Expiry # Nil
    /\ call["c1"].now < call["c2"].now
    /\ call["c2"].fetches # <<>>

\* the earlier call accepted the token and its result is still at hand; the
\* later call, after the expiry, rejected the same token against the same cache
C26_WitnessExpired ==
    /\ SameTokenSameCache("c1", "c2")
    /\ call["c1"].result.err = Nil
    /\ call["c1"].now < call["c2"].now
    /\ FailedWith("c2", ErrTokenExpired)

(***************************************************************************)
(* C27.  Under every interleaving of concurrent requests the identity the  *)
(* wrapped handler of a request finds in its context is the one an         *)
(* authenticator returned for the token of that request; a request that    *)
(* was not authenticated finds none, whatever other requests were given.   *)
(***************************************************************************)
\* the token the middleware takes from the headers of request r
OwnToken(r) == extractTokenWithSource(config, req[r].header).token

\* the context of the i-th call of next for r carries the identity of the
\* last Authenticate call made for r, which succeeded on r's own token
CarriesOwnIdentity(r, i) ==
    /\ authLog[r] # <<>>
    /\ LET last == authLog[r][Len(authLog[r])]
       IN  /\ last.err = NoError
           /\ last.token = OwnToken(r)
           /\ GetIdentity(nextLog[r][i].ctx) = last.id

C27_OwnIdentity ==
    \A r \in RequestIds :
        /\ \A j \in 1..Len(authLog[r]) : authLog[r][j].token = OwnToken(r)
        /\ \A i \in 1..Len(nextLog[r]) :
               IF pc[r] = "passed_authenticated"
               THEN CarriesOwnIdentity(r, i)
               ELSE GetIdentity(nextLog[r][i].ctx) = Nil
        /\ pc[r] \in {"rejected_no_token", "rejected_invalid"} => nextLog[r] = <<>>

\* two requests with different tokens were authenticated as different
\* subjects, and each handler was called
C27_Witness ==
    /\ pc["r1"] = "passed_authenticated" /\ pc["r2"] = "passed_authenticated"
    /\ OwnToken("r1") # OwnToken("r2")
    /\ GetIdentity(nextLog["r1"][1].ctx) # GetIdentity(nextLog["r2"][1].ctx)

\* a request was authenticated and the other, with the same token, rejected
C27_WitnessRejected ==
    /\ pc["r1"] = "passed_authenticated" /\ pc["r2"] = "rejected_invalid"
    /\ OwnToken("r1") = OwnToken("r2")

(***************************************************************************)
(* C28.  For a configuration whose mode is a single strategy (oidc,        *)
(* spiffe, dapr-sentry), Validate accepts exactly when that strategy is    *)
(* enabled and its required fields are set, and rejects a mode whose       *)
(* strategy is not enabled as ErrUnsupportedMethod.  As stated this fails  *)
(* for a configuration with authentication switched off (Enabled false),   *)
(* which Validate accepts whatever else it holds; it holds of the          *)
(* configurations with Enabled true.                                       *)
(***************************************************************************)
SingleModes == {ModeOIDC, ModeSPIFFE, ModeDaprSentry}

Validated == returned # Nil
ValidateAccepts == Validated /\ returned.err = NoError

\* the enabled flag of the strategy the mode names
StrategyEnabled(c) ==
    CASE c.Mode = ModeOIDC -> c.OIDC.Enabled
      [] c.Mode = ModeSPIFFE -> c.SPIFFE.Enabled
      [] c.Mode = ModeDaprSentry -> c.DaprSentry.Enabled

\* the required fields of each strategy are set
OIDCComplete(c) == c.OIDC.IssuerURL # "" /\ c.OIDC.ClientID # ""
SPIFFEComplete(c) == c.SPIFFE.TrustDomain # "" /\ c.SPIFFE.ServerID # ""
DaprSentryComplete(c) == c.DaprSentry.JWKSUrl # "" /\ c.DaprSentry.TrustDomain # ""

StrategyComplete(c) ==
    CASE c.Mode = ModeOIDC -> OIDCComplete(c)
      [] c.Mode = ModeSPIFFE -> SPIFFEComplete(c)
      [] c.Mode = ModeDaprSentry -> DaprSentryComplete(c)

SingleModeRule ==
    /\ ValidateAccepts <=> (StrategyEnabled(args) /\ StrategyComplete(args))
    /\ ~StrategyEnabled(args) => returned.err = ErrUnsupportedMethod

\* C28 as stated: for every configuration with a single-strategy mode
C28_SingleModeAlways ==
    (Validated /\ args.Mode \in SingleModes) => SingleModeRule

\* C28 for configurations with authentication switched on
C28_SingleModeWhenEnabled ==
    (Validated /\ args.Mode \in SingleModes /\ args.Enabled) => SingleModeRule

\* Validate rejected an enabled strategy for a single missing field
C28_Witness ==
    /\ Validated /\ args.Enabled /\ args.Mode = ModeOIDC
    /\ args.OIDC.Enabled /\ args.OIDC.IssuerURL # "" /\ args.OIDC.ClientID = ""
    /\ returned.err \notin {NoError, ErrUnsupportedMethod}

\* Validate rejected a mode whose strategy is not enabled
C28_WitnessUnsupported ==
    /\ Validated /\ args.Enabled /\ args.Mode = ModeDaprSentry
    /\ ~args.DaprSentry.Enabled /\ DaprSentryComplete(args)
    /\ returned.err = ErrUnsupportedMethod

(***************************************************************************)
(* C29.  For a hybrid configuration Validate accepts exactly when at least *)
(* one strategy is enabled and every enabled strategy has its required     *)
(* fields set; the fields of a strategy that is not enabled are not looked *)
(* at.  As stated this fails for a configuration with authentication       *)
(* switched off, which Validate accepts with no strategy enabled; it holds *)
(* of the configurations with Enabled true.                                *)
(***************************************************************************)
SomeEnabled(c) == c.OIDC.Enabled \/ c.SPIFFE.Enabled \/ c.DaprSentry.Enabled

EnabledComplete(c) ==
    /\ c.OIDC.Enabled => OIDCComplete(c)
    /\ c.SPIFFE.Enabled => SPIFFEComplete(c)
    /\ c.DaprSentry.Enabled => DaprSentryComplete(c)

\* the configurations that differ from c in fields of disabled strategies only
SameButDisabledFields(c) ==
    {d \in ValidateConfigs :
        /\ d.Enabled = c.Enabled /\ d.Mode = c.Mode
        /\ d.OIDC.Enabled = c.OIDC.Enabled
        /\ d.SPIFFE.Enabled = c.SPIFFE.Enabled
        /\ d.DaprSentry.Enabled = c.DaprSentry.Enabled
        /\ c.OIDC.Enabled => d.OIDC = c.OIDC
        /\ c.SPIFFE.Enabled => d.SPIFFE = c.SPIFFE
        /\ c.DaprSentry.Enabled => d.DaprSentry = c.DaprSentry}

HybridRule ==
    /\ ValidateAccepts <=> (SomeEnabled(args) /\ EnabledComplete(args))
    /\ \A d \in SameButDisabledFields(args) : Validate(d) = returned.err

\* C29 as stated: for every hybrid configuration
C29_HybridAlways ==
    (Validated /\ args.Mode = ModeHybrid) => HybridRule

\* C29 for configurations with authentication switched on
C29_HybridWhenEnabled ==
    (Validated /\ args.Mode = ModeHybrid /\ args.Enabled) => HybridRule

\* Validate accepted a hybrid configuration whose only enabled strategy is
\* the control-plane one, the fields of the other two unset
C29_Witness ==
    /\ Validated /\ args.Enabled /\ args.Mode = ModeHybrid
    /\ args.DaprSentry.Enabled /\ ~args.OIDC.Enabled /\ ~args.SPIFFE.Enabled
    /\ ~OIDCComplete(args) /\ ~SPIFFEComplete(args)
    /\ returned.err = NoError

(***************************************************************************)
(* C30.  Once the JWT-SVID is validated with the server's own ID as the    *)
(* expected audience, the SPIFFE authenticator first compares the trust    *)
(* domain (a different one fails with ErrInvalidIssuer, whatever the       *)
(* allow-list holds), then, only when the allow-list is not empty, looks   *)
(* the caller's ID up in it (absent: ErrInvalidToken); with an empty       *)
(* allow-list every member of the trust domain is admitted.                *)
(***************************************************************************)
\* the constructor returned an authenticator and Authenticate was called
SVIDAuthenticated == "identity" \in DOMAIN returned

\* the call was made and ParseAndValidate accepted the token
SVIDValidated ==
    /\ SVIDAuthenticated
    /\ args.token.verifies
    /\ \E i \in 1..Len(args.token.Audience) : args.token.Audience[i] = args.cfg.ServerID

ForeignTrustDomain == args.token.ID.td # args.cfg.TrustDomain
AllowListed ==
    \E i \in 1..Len(args.cfg.AllowedClients) :
        args.cfg.AllowedClients[i] = IDString(args.token.ID)

SPIFFEFailedWith(kind) ==
    returned.identity = Nil /\ returned.err # Nil /\ returned.err.kind = kind

C30_SPIFFECheckOrder ==
    /\ (SVIDAuthenticated /\ ~SVIDValidated) => SPIFFEFailedWith(ErrInvalidToken)
    /\ SVIDValidated =>
         IF ForeignTrustDomain
         THEN SPIFFEFailedWith(ErrInvalidIssuer)
         ELSE IF args.cfg.AllowedClients # <<>> /\ ~AllowListed
         THEN SPIFFEFailedWith(ErrInvalidToken)
         ELSE /\ returned.err = Nil
              /\ returned.identity.Subject = IDString(args.token.ID)
              /\ returned.identity.Issuer = args.cfg.TrustDomain
              /\ returned.identity.AuthMethod = ModeSPIFFE

\* an SVID of another trust domain whose ID is not in the non-empty
\* allow-list: both checks would fail, the trust domain check answers
C30_Witness ==
    /\ SVIDValidated /\ ForeignTrustDomain
    /\ args.cfg.AllowedClients # <<>> /\ ~AllowListed
    /\ SPIFFEFailedWith(ErrInvalidIssuer)

\* a member of the trust domain admitted by an empty allow-list
C30_WitnessEmptyList ==
    /\ SVIDValidated /\ ~ForeignTrustDomain /\ args.cfg.AllowedClients = <<>>
    /\ returned.err = Nil

\* a member of the trust domain that the allow-list does not name
C30_WitnessNotListed ==
    /\ SVIDValidated /\ ~ForeignTrustDomain
    /\ args.cfg.AllowedClients # <<>> /\ ~AllowListed
    /\ SPIFFEFailedWith(ErrInvalidToken)

(***************************************************************************)
(* C31.  Identity carrier round trip: GetIdentity(WithIdentity(c, id)) is  *)
(* id and IsAuthenticated is true for every context c and non-nil id;      *)
(* IsAuthenticated is true exactly when GetIdentity is non-nil, so a       *)
(* context with no identity, a nil identity or a value of another type     *)
(* under the key is not authenticated; attaching changes neither the       *)
(* original context nor what other keys return.                            *)
(***************************************************************************)
\* what ctx.Value(k) returns, Nil for a key the context does not hold
Value(ctx, k) == IF k \in DOMAIN ctx THEN [v |-> ctx[k]] ELSE Nil

Unidentified(ctx) ==
    \/ identityKey \notin DOMAIN ctx
    \/ ctx[identityKey] = Nil
    \/ ctx[identityKey] = OtherTyped

RoundTrip ==
    /\ Unidentified(args.ctx) => ~IsAuthenticated(args.ctx) /\ GetIdentity(args.ctx) = Nil
    /\ IsAuthenticated(args.ctx) <=> GetIdentity(args.ctx) # Nil
    /\ returned # Nil =>
         /\ args.id # Nil => /\ GetIdentity(returned.ctx) = args.id
                             /\ IsAuthenticated(returned.ctx)
         /\ args.id = Nil => ~IsAuthenticated(returned.ctx)
         /\ IsAuthenticated(returned.ctx) <=> GetIdentity(returned.ctx) # Nil
         /\ \A k \in {ServerContextKey, OtherKey} :
                Value(returned.ctx, k) = Value(args.ctx, k)

\* the context handed to WithIdentity is the same value after the call
OriginalUntouched == args' = args

\* C31: the round trip in every state, the original context never changed
C31_RoundTrip == []RoundTrip /\ [][OriginalUntouched]_vars

\* an identity was attached over a value of another type, other keys present
C31_Witness ==
    /\ returned # Nil /\ args.id # Nil
    /\ OtherKey \in DOMAIN args.ctx
    /\ identityKey \in DOMAIN args.ctx /\ args.ctx[identityKey] = OtherTyped
    /\ GetIdentity(returned.ctx) = args.id

\* a nil identity was attached: the key is present, the context unauthenticated
C31_WitnessNil ==
    /\ returned # Nil /\ args.id = Nil
    /\ identityKey \in DOMAIN returned.ctx
    /\ ~IsAuthenticated(returned.ctx)

(***************************************************************************)
(* C32.  The readiness probe answers 503 with overall status unhealthy     *)
(* exactly when the ready flag is false at the time of the request,        *)
(* whatever the Dapr check returns; when ready, a failing Dapr check gives *)
(* degraded with 200 and a passing or absent check healthy with 200; the   *)
(* probe reflects the value SetReady stored last.                          *)
(***************************************************************************)
\* this step is a probe loading the flag
Loads == probe = Nil /\ probe' # Nil
\* this step is a probe writing its response
Probed == probe # Nil /\ probe' = Nil

\* the value the last SetReady stored, or the one NewHandler stored
LastStored == IF setLog = <<>> THEN TRUE ELSE setLog[Len(setLog)]

\* the probe's response lists a failing Dapr check
DaprFailing(r) ==
    \E i \in 1..Len(r.Checks) :
        r.Checks[i].Component = "dapr" /\ r.Checks[i].Status # StatusHealthy

\* the flag a probe goes by is the flag as it is when the request loads it,
\* the value stored last; the answer follows from that flag
ReadinessRule ==
    /\ Loads => probe'.isReady = ready /\ ready = LastStored
    /\ Probed =>
        /\ (response'.httpStatus = StatusServiceUnavailable) <=> ~probe.isReady
        /\ (response'.Status = StatusUnhealthy) <=> ~probe.isReady
        /\ probe.isReady =>
               /\ response'.httpStatus = StatusOK
               /\ response'.Status =
                      IF DaprFailing(response') THEN StatusDegraded
                      ELSE StatusHealthy

C32_Readiness == [][ReadinessRule]_vars

\* not ready and the Dapr check failing: 503 and unhealthy, not degraded
C32_Witness ==
    /\ response # Nil /\ response.httpStatus = StatusServiceUnavailable
    /\ response.Status = StatusUnhealthy
    /\ DaprFailing(response)
    /\ Len(setLog) >= 2

\* ready again after having been not ready, the Dapr check failing: degraded
C32_WitnessDegraded ==
    /\ response # Nil /\ response.httpStatus = StatusOK
    /\ response.Status = StatusDegraded
    /\ setLog = <<FALSE, TRUE>>

(***************************************************************************)
(* C33.  The control-plane Authenticate applies its checks in the order    *)
(* parse, resolve key, verify signature, expiry, notBefore, audience,      *)
(* non-empty subject, trust domain, and returns the error of the first     *)
(* check that fails: a correctly signed token that is expired and has a    *)
(* wrong audience yields TokenExpired; one with a wrong audience and an    *)
(* empty subject yields InvalidAudience.                                   *)
(***************************************************************************)
C33_CheckOrder == \A c \in Callers : Returned(c) => FirstFailure(c)

\* correctly signed, expired and with a wrong audience: TokenExpired
C33_Witness ==
    /\ SignatureValid("c1")
    /\ ExpiryPast(call["c1"].claims, call["c1"].now)
    /\ ~AudienceSatisfied(sentryConfig, call["c1"].claims)
    /\ FailedWith("c1", ErrTokenExpired)

\* correctly signed, within its validity period, with a wrong audience and
\* an empty subject: InvalidAudience
C33_WitnessAudience ==
    /\ InValidityPeriod("c1")
    /\ ~AudienceSatisfied(sentryConfig, call["c1"].claims)
    /\ call["c1"].claims.Subject = <<>>
    /\ FailedWith("c1", ErrInvalidAudience)

(***************************************************************************)
(* C34.  Every control-plane Authenticate call ends, with an identity or   *)
(* an error, after at most two fetches of the key set: at most one because *)
(* the cache was stale and at most one because the key ID was not found.   *)
(***************************************************************************)
AtMostTwoFetches ==
    \A c \in Callers :
        /\ Len(call[c].fetches) <= 2
        /\ Cardinality(FetchesFor(c, "stale")) <= 1
        /\ Cardinality(FetchesFor(c, "miss")) <= 1
        /\ \A i \in 1..Len(call[c].fetches) : call[c].fetches[i].cause \in {"stale", "miss"}

IdentityOrError ==
    \A c \in Callers :
        Returned(c) => (call[c].result.identity = Nil) # (call[c].result.err = Nil)

EveryCallEnds ==
    \A c \in Callers : (call[c].pc # "idle") ~> Returned(c)

C34_BoundedFetches == []AtMostTwoFetches /\ []IdentityOrError /\ EveryCallEnds

\* a call that returned after two fetches, one for each cause
C34_Witness ==
    /\ Returned("c1")
    /\ Len(call["c1"].fetches) = 2
    /\ Cardinality(FetchesFor("c1", "stale")) = 1
    /\ Cardinality(FetchesFor("c1", "miss")) = 1

(***************************************************************************)
(* C35.  Once the control-plane authenticator is constructed the cached    *)
(* key set is never nil: no refresh, successful or failed, in any          *)
(* interleaving, resets it, and no call fails with 'no JWKS available'.    *)
(***************************************************************************)
C35_KeySetNeverNil ==
    built = "yes" =>
        /\ jwks # Nil
        /\ stored.jwks # Nil
        /\ \A c \in Callers :
               /\ call[c].pc \in {"fetch", "lock", "store", "stamp", "verify", "done"}
                      => call[c].jwks # Nil
               /\ Returned(c) => ~FailedAs(c, ErrInvalidToken, "no JWKS available")

\* a refresh of one call failed and a refresh of the other stored a key set
\* without the key of the first: the first call misses, the cache is there
C35_Witness ==
    /\ built = "yes"
    /\ Returned("c1")
    /\ \E i \in 1..Len(call["c1"].fetches) : ~call["c1"].fetches[i].ok
    /\ call["c1"].result.err # Nil
    /\ \E i \in 1..Len(call["c2"].fetches) : call["c2"].fetches[i].ok
    /\ jwks # Nil

(***************************************************************************)
(* C36.  lastRefresh never decreases, also with concurrent refreshes       *)
(* interleaved, and it changes only under the exclusive lock, in the hold  *)
(* of the lock in which a successfully fetched key set was stored.         *)
(***************************************************************************)
\* c holds the exclusive lock and has stored the key set it fetched
StoredUnderLock(c) ==
    /\ jwksMu.writer = c
    /\ call[c].pc = "stamp"
    /\ call[c].fetches # <<>>
    /\ call[c].fetches[Len(call[c].fetches)].ok
    /\ jwks = call[c].fetched

LastRefreshStep ==
    /\ lastRefresh' >= lastRefresh
    /\ lastRefresh' # lastRefresh =>
           \/ built = "no" /\ built' = "yes" /\ jwks' # Nil
           \/ \E c \in Callers : StoredUnderLock(c) /\ jwksMu'.writer = ""

C36_LastRefreshMonotone == [][LastRefreshStep]_vars

\* both callers refreshed, one after the other, at different times
C36_Witness ==
    /\ \A c \in Callers : \E i \in 1..Len(call[c].fetches) : call[c].fetches[i].ok
    /\ \A c \in Callers : call[c].pc \in {"rlock", "read", "verify", "done"}
    /\ lastRefresh >= ZeroTime + 3
    /\ call["c1"].lastRefresh < lastRefresh


\* ---------------------------------------------------------------------------
\* C37: when refreshes of concurrent requests overlap, an older JWKS response
\* never overwrites a newer one: once no refresh holds a fetched response it
\* has yet to store, the cached key set is the one the endpoint served to the
\* fetch that completed last. refreshJWKS reads the response before it takes
\* the lock and stores it unconditionally, so the refresh that locks last
\* wins whatever the order of the fetches: the statement fails.
\* ---------------------------------------------------------------------------

\* caller c has read a JWKS response and has not finished storing it
HoldsResponse(c) == call[c].pc \in {"lock", "store", "stamp"}

C37_NewestKept ==
    (built = "yes" /\ \A c \in Callers : ~HoldsResponse(c)) => jwks = newest


\* ---------------------------------------------------------------------------
\* C38: a request that passes because its path is exempt or because
\* authentication is disabled is handed to next exactly once, with the
\* context it arrived with: no Identity is attached, so GetIdentity is nil
\* and IsAuthenticated is false in the wrapped handler, even when the
\* request carries a token and an authenticator that could accept it is
\* configured.
\* ---------------------------------------------------------------------------

\* request r carries a token the middleware would extract
CarriesToken(r) == ~tokenMissing(extractTokenWithSource(config, req[r].header).token)

\* some configured authenticator may accept a token
SomeAuthenticatorAccepts ==
    \E i \in 1..Len(authenticators) :
        \E res \in AuthResults(authenticators[i]) : res.err = NoError

\* request r is handed on as it came
ForwardedUnchanged(r) ==
    /\ nextLog[r] = <<[ctx |-> req[r].ctx]>>
    /\ GetIdentity(nextLog[r][1].ctx) = Nil
    /\ ~IsAuthenticated(nextLog[r][1].ctx)
    /\ authLog[r] = <<>>

C38_PassThroughUnidentified ==
    \A r \in RequestIds :
        (Entered(r) /\ (Exempt(r) \/ Disabled)) => ForwardedUnchanged(r)

\* authentication is disabled, the path is not exempt, the request carries a
\* token an authenticator could accept, and the request was handed on
C38_Witness ==
    \E r \in RequestIds :
        /\ pc[r] = "passed_disabled"
        /\ ~Exempt(r)
        /\ CarriesToken(r)
        /\ SomeAuthenticatorAccepts
        /\ Len(nextLog[r]) = 1

\* an exempt path under an enabled configuration, with such a token
C38_WitnessExempt ==
    \E r \in RequestIds :
        /\ pc[r] = "passed_skip"
        /\ ~Disabled
        /\ CarriesToken(r)
        /\ SomeAuthenticatorAccepts
        /\ Len(nextLog[r]) = 1


\* ---------------------------------------------------------------------------
\* C39: for every enabled configuration that passes Validate with a mode
\* other than disabled, the authenticator list handed to NewMiddleware holds
\* one authenticator for each active strategy, in the order OIDC, SPIFFE,
\* control-plane, and is non-empty. buildAuthenticators has no case for the
\* control-plane mode and its hybrid case does not look at DaprSentry, so
\* the statement fails for every configuration that relies on that strategy.
\* ---------------------------------------------------------------------------

\* the strategies a validated configuration activates, in the stated order
ActiveStrategies(c) ==
    CASE c.Mode = ModeOIDC -> <<ModeOIDC>>
      [] c.Mode = ModeSPIFFE -> <<ModeSPIFFE>>
      [] c.Mode = ModeDaprSentry -> <<ModeDaprSentry>>
      [] c.Mode = ModeHybrid ->
             (IF c.OIDC.Enabled THEN <<ModeOIDC>> ELSE <<>>)
             \o (IF c.SPIFFE.Enabled THEN <<ModeSPIFFE>> ELSE <<>>)
             \o (IF c.DaprSentry.Enabled THEN <<ModeDaprSentry>> ELSE <<>>)
      [] OTHER -> <<>>

\* main handed an authenticator list to NewMiddleware
MiddlewareBuilt == "middleware" \in DOMAIN returned /\ returned.middleware = "Middleware"

C39_OneAuthenticatorPerStrategy ==
    MiddlewareBuilt =>
        /\ returned.authenticators # <<>>
        /\ returned.authenticators
               = [i \in 1..Len(ActiveStrategies(args)) |-> [mode |-> ActiveStrategies(args)[i]]]

=============================================================================
